---- MODULE Spec2Model ----
(***************************************************************************)
(* Food-photo calorie counter (vivmuk/caloriecounter).                     *)
(*                                                                         *)
(* The repository holds several independent pieces; each gets its own      *)
(* specification over its own variables:                                   *)
(*   SpecPipeline  the Venice clients: app/lib/venice.ts (two-stage, with  *)
(*                 the response_format retry) and the model-selectable     *)
(*                 revision part_003 (proxy hop, single-stage fallback)    *)
(*   SpecClean     the regex cleaning pass and JSON.parse of the reply     *)
(*   SpecMulti     multi-model/comparison.ts with the Venice adapter       *)
(*   SpecPanel     ModelComparisonPanel / ModelResultCard (part_000)       *)
(*   SpecApp       src/App.tsx: analysis, camera, sections, progress       *)
(*   SpecProxy     the Netlify proxy handler (part_006)                    *)
(*   SpecCall      callVeniceAPI / callModelAPI: timer, fetch, body        *)
(*                                                                         *)
(* Text.  JSON text and model content are sequences of one-character       *)
(* strings, so that the regular expressions and JSON.parse are computed    *)
(* character by character.  Error messages are sequences of words;         *)
(* String.includes on them is "occurs as a contiguous run of words".       *)
(***************************************************************************)
EXTENDS Integers, Sequences, FiniteSets, TLC

(***************************************************************************)
(* Characters and strings                                                  *)
(***************************************************************************)
Q == "\""
TAB == "\t"
Digits == {"0", "1", "2", "3", "4", "5", "6", "7", "8", "9"}
Letters == {"a", "b", "c", "d", "e", "f", "g", "h", "i", "j", "k", "l", "m",
            "n", "o", "p", "q", "r", "s", "t", "u", "v", "w", "x", "y", "z"}
UpperLetters == {"A", "B", "C", "D", "E", "F", "G", "H", "I", "J", "K", "L", "M",
                 "N", "O", "P", "Q", "R", "S", "T", "U", "V", "W", "X", "Y", "Z"}
\* \w of a JavaScript regular expression
WordChars == Digits \cup Letters \cup UpperLetters \cup {"_"}
\* \s of a JavaScript regular expression, which is also what trim() strips.
\* A character that TLA+ cannot write is named by its \u escape (see CodeUnit).
SpaceChars ==
  {" ", TAB, "\n", "\r", "\f", "\\u000b", "\\u00a0", "\\u1680", "\\u2000", "\\u2001",
   "\\u2002", "\\u2003", "\\u2004", "\\u2005", "\\u2006", "\\u2007", "\\u2008",
   "\\u2009", "\\u200a", "\\u2028", "\\u2029", "\\u202f", "\\u205f", "\\u3000",
   "\\ufeff"}
\* the whitespace of the JSON grammar
JsonSpace == {" ", TAB, "\n", "\r"}

\* The hexadecimal digits, by value, as \u escapes are written here
HexLower == <<"0", "1", "2", "3", "4", "5", "6", "7", "8", "9",
              "a", "b", "c", "d", "e", "f">>
HexChars == Digits \cup {"a", "b", "c", "d", "e", "f", "A", "B", "C", "D", "E", "F"}
HexUpper == <<"0", "1", "2", "3", "4", "5", "6", "7", "8", "9",
              "A", "B", "C", "D", "E", "F">>
HexVal(c) == (CHOOSE k \in 1..16 : c \in {HexLower[k], HexUpper[k]}) - 1

\* U+0020 .. U+007E in order (U+0060, which opens a quotation in TLA+ source
\* text, by its escape)
Printable ==
  <<" ", "!", Q, "#", "$", "%", "&", "'", "(", ")", "*", "+", ",", "-", ".", "/",
    "0", "1", "2", "3", "4", "5", "6", "7", "8", "9", ":", ";", "<", "=", ">", "?",
    "@", "A", "B", "C", "D", "E", "F", "G", "H", "I", "J", "K", "L", "M", "N", "O",
    "P", "Q", "R", "S", "T", "U", "V", "W", "X", "Y", "Z", "[", "\\", "]", "^", "_",
    "\\u0060", "a", "b", "c", "d", "e", "f", "g", "h", "i", "j", "k", "l", "m", "n", "o",
    "p", "q", "r", "s", "t", "u", "v", "w", "x", "y", "z", "{", "|", "}", "~">>

\* A character that cannot be written as a TLA+ string is the one-element
\* string holding its \u escape in lower case; U+0008 is BS.
CodeUnit(a, b, c, d) ==
  "\\u" \o HexLower[HexVal(a) + 1] \o HexLower[HexVal(b) + 1]
        \o HexLower[HexVal(c) + 1] \o HexLower[HexVal(d) + 1]
BS == "\\b"
\* the character of the UTF-16 code unit with hexadecimal digits a b c d
CharOfValue(code, a, b, c, d) ==
  CASE code = 8 -> BS
    [] code = 9 -> TAB
    [] code = 10 -> "\n"
    [] code = 12 -> "\f"
    [] code = 13 -> "\r"
    [] code \in 32..126 -> Printable[code - 31]
    [] OTHER -> CodeUnit(a, b, c, d)
CharOfCode(a, b, c, d) ==
  CharOfValue(4096 * HexVal(a) + 256 * HexVal(b) + 16 * HexVal(c) + HexVal(d), a, b, c, d)
\* U+0000 .. U+001F
ControlChars ==
  {"\\u0000", "\\u0001", "\\u0002", "\\u0003", "\\u0004", "\\u0005", "\\u0006", "\\u0007",
   BS, TAB, "\n", "\\u000b", "\f", "\r", "\\u000e", "\\u000f",
   "\\u0010", "\\u0011", "\\u0012", "\\u0013", "\\u0014", "\\u0015", "\\u0016", "\\u0017",
   "\\u0018", "\\u0019", "\\u001a", "\\u001b", "\\u001c", "\\u001d", "\\u001e", "\\u001f"}

IsPrefixAt(needle, hay, i) ==
  /\ i >= 1
  /\ i + Len(needle) - 1 <= Len(hay)
  /\ \A k \in 1..Len(needle) : hay[i + k - 1] = needle[k]

\* String.prototype.includes
Includes(hay, needle) ==
  \E i \in 1..(Len(hay) + 1) : IsPrefixAt(needle, hay, i)

\* String.prototype.indexOf / lastIndexOf for a single character, 0 when absent
\* (positions are 1-based here, so 0 plays the part of -1)
IndexOf(s, c) ==
  IF \E i \in 1..Len(s) : s[i] = c
  THEN CHOOSE i \in 1..Len(s) : s[i] = c /\ \A j \in 1..(i - 1) : s[j] # c
  ELSE 0

LastIndexOf(s, c) ==
  IF \E i \in 1..Len(s) : s[i] = c
  THEN CHOOSE i \in 1..Len(s) : s[i] = c /\ \A j \in (i + 1)..Len(s) : s[j] # c
  ELSE 0

\* String.prototype.trim
Trim(s) ==
  IF \A i \in 1..Len(s) : s[i] \in SpaceChars THEN <<>>
  ELSE LET a == CHOOSE i \in 1..Len(s) :
                  s[i] \notin SpaceChars /\ \A j \in 1..(i - 1) : s[j] \in SpaceChars
           b == CHOOSE i \in 1..Len(s) :
                  s[i] \notin SpaceChars /\ \A j \in (i + 1)..Len(s) : s[j] \in SpaceChars
       IN SubSeq(s, a, b)

\* Array.prototype.join
RECURSIVE Join(_, _)
Join(parts, sep) ==
  IF Len(parts) = 0 THEN <<>>
  ELSE IF Len(parts) = 1 THEN parts[1]
  ELSE parts[1] \o sep \o Join(Tail(parts), sep)

\* Array.prototype.filter
RECURSIVE SelectNonEmpty(_)
SelectNonEmpty(parts) ==
  IF Len(parts) = 0 THEN <<>>
  ELSE IF Len(parts[1]) = 0 THEN SelectNonEmpty(Tail(parts))
  ELSE <<parts[1]>> \o SelectNonEmpty(Tail(parts))

(***************************************************************************)
(* The cleaning pass of calculateNutritionFromDescription                  *)
(* (app/lib/venice.ts 608-660, part_005 534-587).  Each String.replace     *)
(* with a /g regular expression scans left to right; at a position where   *)
(* the expression matches, the replacement is emitted and the scan resumes *)
(* after the match, otherwise the character is copied.                     *)
(***************************************************************************)
\* number of leading characters of s, from position i on, that lie in set
RECURSIVE RunLen(_, _, _)
RunLen(s, i, set) ==
  IF i <= Len(s) /\ s[i] \in set THEN 1 + RunLen(s, i + 1, set) ELSE 0

\* number of leading characters of s, from position i on, that lie outside set
RECURSIVE RunLenNot(_, _, _)
RunLenNot(s, i, set) ==
  IF i <= Len(s) /\ s[i] \notin set THEN 1 + RunLenNot(s, i + 1, set) ELSE 0

\* the leftmost position of a set of positions
Leftmost(positions) == CHOOSE j \in positions : \A k \in positions : j <= k

\* content.match(/\{[\s\S]*\}/): from the first "{" to the last "}"
ExtractJson(content) ==
  LET a == IndexOf(content, "{")
      b == LastIndexOf(content, "}")
  IN IF a > 0 /\ b > a THEN SubSeq(content, a, b) ELSE content

\* 1. jsonStr.replace(/\t/g, " ")
ReplaceTabs(s) == [k \in 1..Len(s) |-> IF s[k] = TAB THEN " " ELSE s[k]]

\* \d{50,} of step 2
LongDecimalDigits == 50

\* the match of /(\d+)\.\d{50,}/ at position i: its length (0: no match) and
\* what replaces it
LongDecimalAt(s, i) ==
  LET n == RunLen(s, i, Digits)
      dot == i + n
      m == IF n >= 1 /\ dot <= Len(s) /\ s[dot] = "."
           THEN RunLen(s, dot + 1, Digits) ELSE 0
  IN IF m >= LongDecimalDigits
     THEN [len |-> n + 1 + m, out |-> SubSeq(s, i, i + n - 1)]
     ELSE [len |-> 0, out |-> <<>>]

\* 2. jsonStr.replace(/(\d+)\.\d{50,}/g, "$1"), from position i on
RECURSIVE TruncateLongDecimals(_, _)
TruncateLongDecimals(s, i) ==
  LET at == {j \in i..Len(s) : s[j] \in Digits /\ LongDecimalAt(s, j).len > 0}
      j == Leftmost(at)
      hit == LongDecimalAt(s, j)
  IN IF at = {} THEN SubSeq(s, i, Len(s))
     ELSE SubSeq(s, i, j - 1) \o hit.out \o TruncateLongDecimals(s, j + hit.len)

\* the match of /:\s*(\d+)\.\d+/ at position i
DecimalAt(s, i) ==
  LET w == RunLen(s, i + 1, SpaceChars)
      d == i + 1 + w
      n == RunLen(s, d, Digits)
      dot == d + n
      m == IF s[i] = ":" /\ n >= 1 /\ dot <= Len(s) /\ s[dot] = "."
           THEN RunLen(s, dot + 1, Digits) ELSE 0
  IN IF m >= 1
     THEN [len |-> 1 + w + n + 1 + m, out |-> <<":", " ">> \o SubSeq(s, d, d + n - 1)]
     ELSE [len |-> 0, out |-> <<>>]

\* 3. jsonStr.replace(/:\s*(\d+)\.\d+/g, ": $1")
RECURSIVE RoundDecimals(_, _)
RoundDecimals(s, i) ==
  LET at == {j \in i..Len(s) : s[j] = ":" /\ DecimalAt(s, j).len > 0}
      j == Leftmost(at)
      hit == DecimalAt(s, j)
  IN IF at = {} THEN SubSeq(s, i, Len(s))
     ELSE SubSeq(s, i, j - 1) \o hit.out \o RoundDecimals(s, j + hit.len)

\* the match of /,(\s*[}\]])/ at position i
TrailingCommaAt(s, i) ==
  LET w == RunLen(s, i + 1, SpaceChars)
      c == i + 1 + w
  IN IF s[i] = "," /\ c <= Len(s) /\ s[c] \in {"}", "]"}
     THEN [len |-> 1 + w + 1, out |-> SubSeq(s, i + 1, c)]
     ELSE [len |-> 0, out |-> <<>>]

\* 4. jsonStr.replace(/,(\s*[}\]])/g, "$1")
RECURSIVE RemoveTrailingCommas(_, _)
RemoveTrailingCommas(s, i) ==
  LET at == {j \in i..Len(s) : s[j] = "," /\ TrailingCommaAt(s, j).len > 0}
      j == Leftmost(at)
      hit == TrailingCommaAt(s, j)
  IN IF at = {} THEN SubSeq(s, i, Len(s))
     ELSE SubSeq(s, i, j - 1) \o hit.out \o RemoveTrailingCommas(s, j + hit.len)

\* the match of /([{,]\s*)(\w+):/ at position i
UnquotedKeyAt(s, i) ==
  LET w == RunLen(s, i + 1, SpaceChars)
      k == i + 1 + w
      n == RunLen(s, k, WordChars)
      c == k + n
  IN IF s[i] \in {"{", ","} /\ n >= 1 /\ c <= Len(s) /\ s[c] = ":"
     THEN [len |-> 1 + w + n + 1,
           out |-> SubSeq(s, i, k - 1) \o <<Q>> \o SubSeq(s, k, c - 1) \o <<Q, ":">>]
     ELSE [len |-> 0, out |-> <<>>]

\* 5. jsonStr.replace(/([{,]\s*)(\w+):/g, '$1"$2":')
RECURSIVE QuoteKeys(_, _)
QuoteKeys(s, i) ==
  LET at == {j \in i..Len(s) : s[j] \in {"{", ","} /\ UnquotedKeyAt(s, j).len > 0}
      j == Leftmost(at)
      hit == UnquotedKeyAt(s, j)
  IN IF at = {} THEN SubSeq(s, i, Len(s))
     ELSE SubSeq(s, i, j - 1) \o hit.out \o QuoteKeys(s, j + hit.len)

\* the match of /:\s*([^",{\[\s][^,}\]\s]*)\s*([,}\]])/ at position i
UnquotedValueAt(s, i) ==
  LET w == RunLen(s, i + 1, SpaceChars)
      v == i + 1 + w
      first == v <= Len(s) /\ s[v] \notin ({Q, ",", "{", "["} \cup SpaceChars)
      n == IF first
           THEN 1 + RunLenNot(s, v + 1, {",", "}", "]"} \cup SpaceChars)
           ELSE 0
      w2 == RunLen(s, v + n, SpaceChars)
      c == v + n + w2
  IN IF s[i] = ":" /\ first /\ c <= Len(s) /\ s[c] \in {",", "}", "]"}
     THEN [len |-> 1 + w + n + w2 + 1,
           out |-> <<":", " ", Q>> \o SubSeq(s, v, v + n - 1) \o <<Q, s[c]>>]
     ELSE [len |-> 0, out |-> <<>>]

\* 6. jsonStr.replace(/:\s*([^",{\[\s][^,}\]\s]*)\s*([,}\]])/g, ': "$1"$2')
RECURSIVE QuoteValues(_, _)
QuoteValues(s, i) ==
  LET at == {j \in i..Len(s) : s[j] = ":" /\ UnquotedValueAt(s, j).len > 0}
      j == Leftmost(at)
      hit == UnquotedValueAt(s, j)
  IN IF at = {} THEN SubSeq(s, i, Len(s))
     ELSE SubSeq(s, i, j - 1) \o hit.out \o QuoteValues(s, j + hit.len)

\* the whole pass, in the order of the source
CleanJson(content) ==
  QuoteValues(
    QuoteKeys(
      RemoveTrailingCommas(
        RoundDecimals(
          TruncateLongDecimals(ReplaceTabs(ExtractJson(content)), 1), 1), 1), 1), 1)


(***************************************************************************)
(* JSON.parse.  The parsed value is kept as the list of its tokens in      *)
(* document order, each token tagged with its JavaScript type, so that two *)
(* parsed values are equal exactly when their token lists are.  A number   *)
(* keeps its integer digits (s) and its fraction digits (f) apart.         *)
(* A number is kept as the decimal numeral of its value: sign and integer  *)
(* digits in s, fraction digits in f, without leading or trailing zeros,   *)
(* the exponent applied.  A numeral at or above 2^1024 - 2^970 is Infinity *)
(* and one at or below 2^-1075 is 0, as the nearest double is.  Between    *)
(* these the rounding of a numeral to the nearest double is not computed:  *)
(* numerals that JavaScript reads as the same double (those of more than   *)
(* 15 significant digits, and those in the subnormal range) stay distinct  *)
(* here.  A SyntaxError is ok = FALSE.                                     *)
(***************************************************************************)
Tok(kind, chars, frac) == [k |-> kind, s |-> chars, f |-> frac]
ParseFail == [ok |-> FALSE, toks |-> <<>>, pos |-> 0]
SkipWs(s, i) == i + RunLen(s, i, JsonSpace)

\* the character a single-letter escape stands for
Unescape(c) ==
  CASE c = "b" -> BS [] c = "f" -> "\f" [] c = "n" -> "\n" [] c = "r" -> "\r"
    [] c = "t" -> TAB [] OTHER -> c

\* The characters of a string literal from position j (just after the
\* opening quote) up to the closing quote, escapes decoded.
StringStops == {Q, "\\"} \cup ControlChars
DecodeFail == [ok |-> FALSE, out |-> <<>>, pos |-> 0]
\* the escape sequence whose backslash stands at position p
EscapeAt(s, p) ==
  IF p + 1 <= Len(s) /\ s[p + 1] \in {Q, "\\", "/", "b", "f", "n", "r", "t"}
  THEN [ok |-> TRUE, char |-> Unescape(s[p + 1]), next |-> p + 2]
  ELSE IF p + 5 <= Len(s) /\ s[p + 1] = "u" /\ \A k \in 2..5 : s[p + k] \in HexChars
  THEN [ok |-> TRUE, char |-> CharOfCode(s[p + 2], s[p + 3], s[p + 4], s[p + 5]),
        next |-> p + 6]
  ELSE [ok |-> FALSE, char |-> "", next |-> 0]
DecodeJoin(chunk, char, rest) ==
  IF rest.ok THEN [ok |-> TRUE, out |-> chunk \o <<char>> \o rest.out, pos |-> rest.pos]
  ELSE DecodeFail
RECURSIVE DecodeString(_, _)
DecodeEscape(s, chunk, esc) ==
  IF esc.ok THEN DecodeJoin(chunk, esc.char, DecodeString(s, esc.next)) ELSE DecodeFail
\* p is the first position from j on that holds a quote, a backslash or a
\* control character
DecodeUpTo(s, j, p) ==
  IF p > Len(s) \/ s[p] \in ControlChars THEN DecodeFail
  ELSE IF s[p] = Q THEN [ok |-> TRUE, out |-> SubSeq(s, j, p - 1), pos |-> p + 1]
  ELSE DecodeEscape(s, SubSeq(s, j, p - 1), EscapeAt(s, p))
DecodeString(s, j) == DecodeUpTo(s, j, j + RunLenNot(s, j, StringStops))

ParseString(s, i, kind) ==
  LET r == DecodeString(s, i + 1)
  IN IF r.ok THEN [ok |-> TRUE, toks |-> <<Tok(kind, r.out, <<>>)>>, pos |-> r.pos]
     ELSE ParseFail

RECURSIVE DigitsToNat(_)
DigitsToNat(ds) ==
  IF Len(ds) = 0 THEN 0
  ELSE 10 * DigitsToNat(SubSeq(ds, 1, Len(ds) - 1)) + HexVal(ds[Len(ds)])

Zeros(n) == [k \in 1..n |-> "0"]
StripLeadingZeros(ds) ==
  IF \A k \in 1..Len(ds) : ds[k] = "0" THEN <<"0">>
  ELSE SubSeq(ds, CHOOSE k \in 1..Len(ds) :
                    ds[k] # "0" /\ \A m \in 1..(k - 1) : ds[m] = "0", Len(ds))
StripTrailingZeros(ds) ==
  IF \A k \in 1..Len(ds) : ds[k] = "0" THEN <<>>
  ELSE SubSeq(ds, 1, CHOOSE k \in 1..Len(ds) :
                       ds[k] # "0" /\ \A m \in (k + 1)..Len(ds) : ds[m] = "0")

\* A numeral is 0.d1 d2 d3 ... * 10^magnitude with d1 # 0.  Above the first
\* magnitude it is Infinity, below the second it is zero; at them the digits
\* decide.
MaxDecimalExponent == 309
MinDecimalExponent == -323
\* the digits of 2^1024 - 2^970, halfway from the largest double to 2^1024:
\* the least value that rounds to Infinity
OverflowThreshold ==
  <<"1", "7", "9", "7", "6", "9", "3", "1", "3", "4", "8", "6", "2", "3", "1", "5",
    "8", "0", "7", "9", "3", "7", "2", "8", "9", "7", "1", "4", "0", "5", "3", "0",
    "3", "4", "1", "5", "0", "7", "9", "9", "3", "4", "1", "3", "2", "7", "1", "0",
    "0", "3", "7", "8", "2", "6", "9", "3", "6", "1", "7", "3", "7", "7", "8", "9",
    "8", "0", "4", "4", "4", "9", "6", "8", "2", "9", "2", "7", "6", "4", "7", "5",
    "0", "9", "4", "6", "6", "4", "9", "0", "1", "7", "9", "7", "7", "5", "8", "7",
    "2", "0", "7", "0", "9", "6", "3", "3", "0", "2", "8", "6", "4", "1", "6", "6",
    "9", "2", "8", "8", "7", "9", "1", "0", "9", "4", "6", "5", "5", "5", "5", "4",
    "7", "8", "5", "1", "9", "4", "0", "4", "0", "2", "6", "3", "0", "6", "5", "7",
    "4", "8", "8", "6", "7", "1", "5", "0", "5", "8", "2", "0", "6", "8", "1", "9",
    "0", "8", "9", "0", "2", "0", "0", "0", "7", "0", "8", "3", "8", "3", "6", "7",
    "6", "2", "7", "3", "8", "5", "4", "8", "4", "5", "8", "1", "7", "7", "1", "1",
    "5", "3", "1", "7", "6", "4", "4", "7", "5", "7", "3", "0", "2", "7", "0", "0",
    "6", "9", "8", "5", "5", "5", "7", "1", "3", "6", "6", "9", "5", "9", "6", "2",
    "2", "8", "4", "2", "9", "1", "4", "8", "1", "9", "8", "6", "0", "8", "3", "4",
    "9", "3", "6", "4", "7", "5", "2", "9", "2", "7", "1", "9", "0", "7", "4", "1",
    "6", "8", "4", "4", "4", "3", "6", "5", "5", "1", "0", "7", "0", "4", "3", "4",
    "2", "7", "1", "1", "5", "5", "9", "6", "9", "9", "5", "0", "8", "0", "9", "3",
    "0", "4", "2", "8", "8", "0", "1", "7", "7", "9", "0", "4", "1", "7", "4", "4",
    "9", "7", "7", "9", "2">>
\* the digits of 2^-1075 (after 323 zeros), half the smallest double: the
\* greatest value that rounds to zero
UnderflowThreshold ==
  <<"2", "4", "7", "0", "3", "2", "8", "2", "2", "9", "2", "0", "6", "2", "3", "2",
    "7", "2", "0", "8", "8", "2", "8", "4", "3", "9", "6", "4", "3", "4", "1", "1",
    "0", "6", "8", "6", "1", "8", "2", "5", "2", "9", "9", "0", "1", "3", "0", "7",
    "1", "6", "2", "3", "8", "2", "2", "1", "2", "7", "9", "2", "8", "4", "1", "2",
    "5", "0", "3", "3", "7", "7", "5", "3", "6", "3", "5", "1", "0", "4", "3", "7",
    "5", "9", "3", "2", "6", "4", "9", "9", "1", "8", "1", "8", "0", "8", "1", "7",
    "9", "9", "6", "1", "8", "9", "8", "9", "8", "2", "8", "2", "3", "4", "7", "7",
    "2", "2", "8", "5", "8", "8", "6", "5", "4", "6", "3", "3", "2", "8", "3", "5",
    "5", "1", "7", "7", "9", "6", "9", "8", "9", "8", "1", "9", "9", "3", "8", "7",
    "3", "9", "8", "0", "0", "5", "3", "9", "0", "9", "3", "9", "0", "6", "3", "1",
    "5", "0", "3", "5", "6", "5", "9", "5", "1", "5", "5", "7", "0", "2", "2", "6",
    "3", "9", "2", "2", "9", "0", "8", "5", "8", "3", "9", "2", "4", "4", "9", "1",
    "0", "5", "1", "8", "4", "4", "3", "5", "9", "3", "1", "8", "0", "2", "8", "4",
    "9", "9", "3", "6", "5", "3", "6", "1", "5", "2", "5", "0", "0", "3", "1", "9",
    "3", "7", "0", "4", "5", "7", "6", "7", "8", "2", "4", "9", "2", "1", "9", "3",
    "6", "5", "6", "2", "3", "6", "6", "9", "8", "6", "3", "6", "5", "8", "4", "8",
    "0", "7", "5", "7", "0", "0", "1", "5", "8", "5", "7", "6", "9", "2", "6", "9",
    "9", "0", "3", "7", "0", "6", "3", "1", "1", "9", "2", "8", "2", "7", "9", "5",
    "5", "8", "5", "5", "1", "3", "3", "2", "9", "2", "7", "8", "3", "4", "3", "3",
    "8", "4", "0", "9", "3", "5", "1", "9", "7", "8", "0", "1", "5", "5", "3", "1",
    "2", "4", "6", "5", "9", "7", "2", "6", "3", "5", "7", "9", "5", "7", "4", "6",
    "2", "2", "7", "6", "6", "4", "6", "5", "2", "7", "2", "8", "2", "7", "2", "2",
    "0", "0", "5", "6", "3", "7", "4", "0", "0", "6", "4", "8", "5", "4", "9", "9",
    "9", "7", "7", "0", "9", "6", "5", "9", "9", "4", "7", "0", "4", "5", "4", "0",
    "2", "0", "8", "2", "8", "1", "6", "6", "2", "2", "6", "2", "3", "7", "8", "5",
    "7", "3", "9", "3", "4", "5", "0", "7", "3", "6", "3", "3", "9", "0", "0", "7",
    "9", "6", "7", "7", "6", "1", "9", "3", "0", "5", "7", "7", "5", "0", "6", "7",
    "4", "0", "1", "7", "6", "3", "2", "4", "6", "7", "3", "6", "0", "0", "9", "6",
    "8", "9", "5", "1", "3", "4", "0", "5", "3", "5", "5", "3", "7", "4", "5", "8",
    "5", "1", "6", "6", "6", "1", "1", "3", "4", "2", "2", "3", "7", "6", "6", "6",
    "7", "8", "6", "0", "4", "1", "6", "2", "1", "5", "9", "6", "8", "0", "4", "6",
    "1", "9", "1", "4", "4", "6", "7", "2", "9", "1", "8", "4", "0", "3", "0", "0",
    "5", "3", "0", "0", "5", "7", "5", "3", "0", "8", "4", "9", "0", "4", "8", "7",
    "6", "5", "3", "9", "1", "7", "1", "1", "3", "8", "6", "5", "9", "1", "6", "4",
    "6", "2", "3", "9", "5", "2", "4", "9", "1", "2", "6", "2", "3", "6", "5", "3",
    "8", "8", "1", "8", "7", "9", "6", "3", "6", "2", "3", "9", "3", "7", "3", "2",
    "8", "0", "4", "2", "3", "8", "9", "1", "0", "1", "8", "6", "7", "2", "3", "4",
    "8", "4", "9", "7", "6", "6", "8", "2", "3", "5", "0", "8", "9", "8", "6", "3",
    "3", "8", "8", "5", "8", "7", "9", "2", "5", "6", "2", "8", "3", "0", "2", "7",
    "5", "5", "9", "9", "5", "6", "5", "7", "5", "2", "4", "4", "5", "5", "5", "0",
    "7", "2", "5", "5", "1", "8", "9", "3", "1", "3", "6", "9", "0", "8", "3", "6",
    "2", "5", "4", "7", "7", "9", "1", "8", "6", "9", "4", "8", "6", "6", "7", "9",
    "9", "4", "9", "6", "8", "3", "2", "4", "0", "4", "9", "7", "0", "5", "8", "2",
    "1", "0", "2", "8", "5", "1", "3", "1", "8", "5", "4", "5", "1", "3", "9", "6",
    "2", "1", "3", "8", "3", "7", "7", "2", "2", "8", "2", "6", "1", "4", "5", "4",
    "3", "7", "6", "9", "3", "4", "1", "2", "5", "3", "2", "0", "9", "8", "5", "9",
    "1", "3", "2", "7", "6", "6", "7", "2", "3", "6", "3", "2", "8", "1", "2", "5">>

\* the order of the fractions 0.a and 0.b
DigitAt(ds, k) == IF k <= Len(ds) THEN HexVal(ds[k]) ELSE 0
DigitsLess(a, b) ==
  \E k \in 1..(Len(a) + Len(b)) :
     /\ DigitAt(a, k) < DigitAt(b, k)
     /\ \A m \in 1..(k - 1) : DigitAt(a, m) = DigitAt(b, m)
RoundsToZero(magnitude, digits) ==
  \/ magnitude < MinDecimalExponent
  \/ magnitude = MinDecimalExponent /\ ~DigitsLess(UnderflowThreshold, digits)
RoundsToInfinity(magnitude, digits) ==
  \/ magnitude > MaxDecimalExponent
  \/ magnitude = MaxDecimalExponent /\ ~DigitsLess(digits, OverflowThreshold)

\* the numeral with digits all and the decimal point after the first point of
\* them, of which the first lead are zeros
NumberDigits(sign, all, point, lead) ==
  IF lead = Len(all) \/ RoundsToZero(point - lead, StripLeadingZeros(all))
  THEN Tok("number", sign \o <<"0">>, <<>>)
  ELSE IF RoundsToInfinity(point - lead, StripLeadingZeros(all))
  THEN Tok("number", sign \o <<"Infinity">>, <<>>)
  ELSE Tok("number",
           sign \o StripLeadingZeros(IF point <= 0 THEN <<"0">>
                                     ELSE IF point >= Len(all)
                                     THEN all \o Zeros(point - Len(all))
                                     ELSE SubSeq(all, 1, point)),
           StripTrailingZeros(IF point <= 0 THEN Zeros(0 - point) \o all
                              ELSE IF point >= Len(all) THEN <<>>
                              ELSE SubSeq(all, point + 1, Len(all))))
LeadingZeros(all) ==
  IF \A k \in 1..Len(all) : all[k] = "0" THEN Len(all)
  ELSE Len(all) - Len(StripLeadingZeros(all))

\* the value of the numeral  sign int . frac e exp
NumberValue(sign, int, frac, exp) ==
  NumberDigits(sign, int \o frac, Len(int) + exp, LeadingZeros(int \o frac))

\* the decimal digits of a natural number
RECURSIVE NatDigits(_)
NatDigits(n) ==
  IF n < 10 THEN <<HexLower[n + 1]>>
  ELSE NatDigits(n \div 10) \o <<HexLower[(n % 10) + 1]>>
\* the order of the natural numbers written a and b, without leading zeros
NatGreater(a, b) == Len(a) > Len(b) \/ (Len(a) = Len(b) /\ DigitsLess(b, a))

\* The exponent of a numeral whose mantissa ends before position end: its
\* digits are s[x .. stop - 1] (none when x = end), its sign stands at end + 1.
ExponentDigits(s, x, stop) == StripLeadingZeros(SubSeq(s, x, stop - 1))
ExponentNegative(s, end, x) == x = end + 2 /\ s[end + 1] = "-"
Exponent(s, end, x, stop) ==
  IF ExponentNegative(s, end, x) THEN 0 - DigitsToNat(ExponentDigits(s, x, stop))
  ELSE DigitsToNat(ExponentDigits(s, x, stop))
\* The first significant digit of a mantissa stands at most its length away
\* from the decimal point.  An exponent greater than that length plus the
\* decimal range of a double therefore takes every mantissa out of the
\* range: the numeral is Infinity, or zero, whatever the digits of the
\* exponent are, and however many they are.
ExponentDecides(mantissa, xdigits) ==
  NatGreater(xdigits, NatDigits(Len(mantissa) + MaxDecimalExponent - MinDecimalExponent))
\* the numeral s[i .. stop - 1]: integer digits s[d .. e - 1], fraction
\* s[e + 1 .. end - 1], exponent from x
NumberResult(s, i, d, e, end, x, stop) ==
  IF e = d \/ (e - d > 1 /\ s[d] = "0") \/ end = e + 1 \/ (x > end /\ stop = x)
  THEN ParseFail
  ELSE IF ExponentDecides(SubSeq(s, d, e - 1) \o SubSeq(s, e + 1, end - 1),
                          ExponentDigits(s, x, stop))
  THEN [ok |-> TRUE,
        toks |-> <<Tok("number",
                       SubSeq(s, i, d - 1)
                         \o (IF ExponentNegative(s, end, x)
                                \/ \A k \in (d..(e - 1)) \cup ((e + 1)..(end - 1)) : s[k] = "0"
                             THEN <<"0">> ELSE <<"Infinity">>),
                       <<>>)>>,
        pos |-> stop]
  ELSE [ok |-> TRUE,
        toks |-> <<NumberValue(SubSeq(s, i, d - 1), SubSeq(s, d, e - 1),
                               SubSeq(s, e + 1, end - 1), Exponent(s, end, x, stop))>>,
        pos |-> stop]
NumberExponent(s, i, d, e, end, x) ==
  NumberResult(s, i, d, e, end, x, IF x > end THEN x + RunLen(s, x, Digits) ELSE end)
NumberFraction(s, i, d, e, end) ==
  NumberExponent(s, i, d, e, end,
                 IF end <= Len(s) /\ s[end] \in {"e", "E"}
                 THEN (IF end + 1 <= Len(s) /\ s[end + 1] \in {"+", "-"}
                       THEN end + 2 ELSE end + 1)
                 ELSE end)
NumberInteger(s, i, d, e) ==
  NumberFraction(s, i, d, e,
                 IF e <= Len(s) /\ s[e] = "." THEN e + 1 + RunLen(s, e + 1, Digits) ELSE e)
NumberSign(s, i, d) == NumberInteger(s, i, d, d + RunLen(s, d, Digits))
ParseNumber(s, i) == NumberSign(s, i, IF s[i] = "-" THEN i + 1 ELSE i)

ParseLiteral(s, i) ==
  IF IsPrefixAt(<<"t", "r", "u", "e">>, s, i)
  THEN [ok |-> TRUE, toks |-> <<Tok("boolean", <<"t", "r", "u", "e">>, <<>>)>>, pos |-> i + 4]
  ELSE IF IsPrefixAt(<<"f", "a", "l", "s", "e">>, s, i)
  THEN [ok |-> TRUE, toks |-> <<Tok("boolean", <<"f", "a", "l", "s", "e">>, <<>>)>>, pos |-> i + 5]
  ELSE IF IsPrefixAt(<<"n", "u", "l", "l">>, s, i)
  THEN [ok |-> TRUE, toks |-> <<Tok("null", <<>>, <<>>)>>, pos |-> i + 4]
  ELSE ParseFail

\* One step of the parser.  st.mode says what is expected at position st.i:
\*   value, firstElement (a value or "]"), firstMember (a key or "}"),
\*   key, colon, after (a "," or the closing bracket, or the end of the text).
\* st.stack holds the brackets that are open.
ParseStop(st, good) == [st EXCEPT !.done = TRUE, !.ok = good]
ParseEmit(st, r, mode) ==
  IF r.ok THEN [st EXCEPT !.i = r.pos, !.toks = st.toks \o r.toks, !.mode = mode]
  ELSE ParseStop(st, FALSE)
ParseOpen(st, j, bracket, mode) ==
  [st EXCEPT !.i = j + 1, !.stack = Append(st.stack, bracket),
             !.toks = Append(st.toks, Tok(bracket, <<>>, <<>>)), !.mode = mode]
ParseClose(st, j, bracket) ==
  [st EXCEPT !.i = j + 1, !.stack = SubSeq(st.stack, 1, Len(st.stack) - 1),
             !.toks = Append(st.toks, Tok(bracket, <<>>, <<>>)), !.mode = "after"]

ParseStep(st) ==
  LET s == st.text
      j == SkipWs(s, st.i)
      top == IF Len(st.stack) > 0 THEN st.stack[Len(st.stack)] ELSE "none"
  IN IF st.mode = "after" /\ top = "none" THEN ParseStop(st, j = Len(s) + 1)
     ELSE IF j > Len(s) THEN ParseStop(st, FALSE)
     ELSE IF st.mode = "firstElement" /\ s[j] = "]" THEN ParseClose(st, j, "]")
     ELSE IF st.mode = "firstMember" /\ s[j] = "}" THEN ParseClose(st, j, "}")
     ELSE IF st.mode \in {"value", "firstElement"}
     THEN (IF s[j] = "{" THEN ParseOpen(st, j, "{", "firstMember")
           ELSE IF s[j] = "[" THEN ParseOpen(st, j, "[", "firstElement")
           ELSE IF s[j] = Q THEN ParseEmit(st, ParseString(s, j, "string"), "after")
           ELSE IF s[j] \in Digits \cup {"-"} THEN ParseEmit(st, ParseNumber(s, j), "after")
           ELSE ParseEmit(st, ParseLiteral(s, j), "after"))
     ELSE IF st.mode \in {"key", "firstMember"}
     THEN (IF s[j] = Q THEN ParseEmit(st, ParseString(s, j, "key"), "colon")
           ELSE ParseStop(st, FALSE))
     ELSE IF st.mode = "colon"
     THEN (IF s[j] = ":" THEN [st EXCEPT !.i = j + 1, !.mode = "value"]
           ELSE ParseStop(st, FALSE))
     ELSE IF s[j] = "," /\ top = "{" THEN [st EXCEPT !.i = j + 1, !.mode = "key"]
     ELSE IF s[j] = "," /\ top = "[" THEN [st EXCEPT !.i = j + 1, !.mode = "value"]
     ELSE IF s[j] = "}" /\ top = "{" THEN ParseClose(st, j, "}")
     ELSE IF s[j] = "]" /\ top = "[" THEN ParseClose(st, j, "]")
     ELSE ParseStop(st, FALSE)

RECURSIVE ParseRun(_)
ParseRun(st) == IF st.done THEN st ELSE ParseRun(ParseStep(st))

\* JSON.parse(text): ok = FALSE stands for the SyntaxError it throws
JsonParse(text) ==
  LET end == ParseRun([text |-> text, i |-> 1, stack |-> <<>>, toks |-> <<>>,
                       mode |-> "value", ok |-> FALSE, done |-> FALSE])
  IN IF end.ok THEN [ok |-> TRUE, toks |-> end.toks] ELSE [ok |-> FALSE, toks |-> <<>>]

\* jsonStr.match(/\{[\s\S]*"title"[\s\S]*\}/): from the first "{" to the last
\* "}", when "title" (quoted) occurs in between; <<>> stands for no match
TitleLiteral == <<Q, "t", "i", "t", "l", "e", Q>>
CoreMatch(s) ==
  LET a == IndexOf(s, "{")
      b == LastIndexOf(s, "}")
  IN IF a > 0 /\ \E q \in (a + 1)..Len(s) :
                    IsPrefixAt(TitleLiteral, s, q) /\ q + Len(TitleLiteral) <= b
     THEN SubSeq(s, a, b)
     ELSE <<>>

\* the try { JSON.parse(jsonStr) } catch { JSON.parse(coreMatch[0]) } of the
\* source: the parsed summary, or ok = FALSE when the function throws
\* "Failed to parse nutrition data"
ParseCleaned(jsonStr) ==
  LET first == JsonParse(jsonStr)
      core == CoreMatch(jsonStr)
  IN IF first.ok THEN first
     ELSE IF Len(core) > 0 THEN JsonParse(core)
     ELSE [ok |-> FALSE, toks |-> <<>>]


(***************************************************************************)
(* HTTP: what one fetch() can come to, and the provider's reply            *)
(***************************************************************************)
\* a few texts, as characters
Pie == <<"p", "i", "e">>
JsonGood == <<"{", Q, "a", Q, ":", Q, "b", Q, "}">>
JsonBad == <<"{", Q, "a", Q, ":", "}">>

\* message.content of a chat completion: undefined, a string or an array of
\* parts; a part is a string or an object {type, text}
NoContent == [t |-> "undefined", s |-> <<>>, a |-> <<>>]
StrContent(chars) == [t |-> "string", s |-> chars, a |-> <<>>]
ArrContent(items) == [t |-> "array", s |-> <<>>, a |-> items]
StrPart(chars) == [isString |-> TRUE, type |-> <<>>, hasText |-> FALSE, text |-> chars]
ObjPart(type, chars) == [isString |-> FALSE, type |-> type, hasText |-> TRUE, text |-> chars]
ImagePart == [isString |-> FALSE, type |-> <<"i", "m", "g">>, hasText |-> FALSE, text |-> <<>>]

\* the JSON body of a 2xx reply: choices[0].message.content, output_text,
\* output and response.output
Body(content, outputText, output, responseOutput) ==
  [content |-> content, output_text |-> outputText, output |-> output,
   response_output |-> responseOutput]
NoArray == [t |-> "undefined", a |-> <<>>]
NullArray == [t |-> "null", a |-> <<>>]
Array(items) == [t |-> "array", a |-> items]

ResponseBodies ==
  { Body(NoContent, NoArray, NoArray, NoArray),
    Body(StrContent(<<>>), NoArray, NoArray, NoArray),
    Body(StrContent(Pie), NoArray, NoArray, NoArray),
    Body(StrContent(JsonGood), NoArray, NoArray, NoArray),
    Body(StrContent(JsonBad), NoArray, NoArray, NoArray),
    Body(ArrContent(<<StrPart(<<"a">>), ImagePart, ObjPart(<<"t", "e", "x", "t">>, <<"b">>)>>),
         NoArray, NoArray, NoArray),
    Body(ArrContent(<<>>), Array(<<Pie, <<" ">>>>), NoArray, NoArray),
    Body(NoContent, NoArray,
         Array(<<StrContent(Pie), ArrContent(<<StrPart(<<"x">>), ObjPart(<<"t">>, <<"a">>)>>)>>),
         Array(<<StrContent(<<"n", "o">>)>>)),
    Body(NoContent, NoArray, NullArray, Array(<<StrContent(JsonGood)>>)) }

\* error texts of a non-2xx reply, as words
ErrorTexts ==
  { <<>>,
    <<"response_format", "is", "not", "supported">>,
    <<"RESPONSE_FORMAT", "Not", "Supported", "by", "model">>,
    <<"Unsupported", "tokenizer">> }

ErrorStatuses == {400, 404}

\* Response.ok
ResponseOk(status) == status >= 200 /\ status <= 299

EmptyBody == Body(NoContent, NoArray, NoArray, NoArray)

\* fetch() rejects (the abort timer fired, or a network/CORS TypeError), or
\* resolves with a Response; a 2xx body may fail to parse as JSON
FetchOutcomes ==
  [kind : {"abort", "typeerror_fetch", "typeerror_other"}, status : {0},
   text : {<<>>}, validJson : {FALSE}, data : {EmptyBody}]
  \cup [kind : {"response"}, status : ErrorStatuses,
        text : ErrorTexts, validJson : {FALSE}, data : {EmptyBody}]
  \cup [kind : {"response"}, status : {200},
        text : {<<>>}, validJson : {TRUE}, data : ResponseBodies]
  \cup [kind : {"response"}, status : {200},
        text : {<<>>}, validJson : {FALSE}, data : {EmptyBody}]

NoReply == [kind |-> "none", status |-> 0, text |-> <<>>, validJson |-> FALSE,
            data |-> EmptyBody]

\* String.prototype.toLowerCase, word by word, over the words used here
LowerWord(w) ==
  CASE w = "2D" -> "2d"
    [] w = "A" -> "a"
    [] w = "API" -> "api"
    [] w = "Analysis Failed" -> "analysis failed"
    [] w = "B" -> "b"
    [] w = "C" -> "c"
    [] w = "Camera not available. Please check permissions or try uploading a photo instead." -> "camera not available. please check permissions or try uploading a photo instead."
    [] w = "Cannot" -> "cannot"
    [] w = "Canvas" -> "canvas"
    [] w = "D" -> "d"
    [] w = "E" -> "e"
    [] w = "Error:" -> "error:"
    [] w = "Event]" -> "event]"
    [] w = "F" -> "f"
    [] w = "Failed" -> "failed"
    [] w = "Failed to analyze image" -> "failed to analyze image"
    [] w = "G" -> "g"
    [] w = "GET" -> "get"
    [] w = "H" -> "h"
    [] w = "I" -> "i"
    [] w = "Infinity" -> "infinity"
    [] w = "J" -> "j"
    [] w = "JSON" -> "json"
    [] w = "K" -> "k"
    [] w = "L" -> "l"
    [] w = "Load" -> "load"
    [] w = "M" -> "m"
    [] w = "Method Not Allowed" -> "method not allowed"
    [] w = "MistralTokenizer" -> "mistraltokenizer"
    [] w = "Model" -> "model"
    [] w = "N" -> "n"
    [] w = "Network" -> "network"
    [] w = "Network error" -> "network error"
    [] w = "No" -> "no"
    [] w = "No valid models selected, defaulting to Venice" -> "no valid models selected, defaulting to venice"
    [] w = "Not" -> "not"
    [] w = "Nutrition" -> "nutrition"
    [] w = "O" -> "o"
    [] w = "OPTIONS" -> "options"
    [] w = "P" -> "p"
    [] w = "POST" -> "post"
    [] w = "Please" -> "please"
    [] w = "Q" -> "q"
    [] w = "R" -> "r"
    [] w = "RESPONSE_FORMAT" -> "response_format"
    [] w = "Request" -> "request"
    [] w = "S" -> "s"
    [] w = "Selected" -> "selected"
    [] w = "Supported" -> "supported"
    [] w = "T" -> "t"
    [] w = "The" -> "the"
    [] w = "U" -> "u"
    [] w = "Unexpected" -> "unexpected"
    [] w = "Unknown" -> "unknown"
    [] w = "Unknown model:" -> "unknown model:"
    [] w = "Unsupported" -> "unsupported"
    [] w = "Unsupported tokenizer" -> "unsupported tokenizer"
    [] w = "V" -> "v"
    [] w = "VENICE" -> "venice"
    [] w = "VENICE_TEXT_MODEL" -> "venice_text_model"
    [] w = "VENICE_VISION_MODEL" -> "venice_vision_model"
    [] w = "VITE_" -> "vite_"
    [] w = "Venice" -> "venice"
    [] w = "Venice AI" -> "venice ai"
    [] w = "Vision" -> "vision"
    [] w = "W" -> "w"
    [] w = "X" -> "x"
    [] w = "Y" -> "y"
    [] w = "Z" -> "z"
    [] w = "analyzeSettled" -> "analyzesettled"
    [] w = "callModelAPI" -> "callmodelapi"
    [] w = "callVeniceAPI" -> "callveniceapi"
    [] w = "capturePhoto" -> "capturephoto"
    [] w = "firstElement" -> "firstelement"
    [] w = "firstMember" -> "firstmember"
    [] w = "howItWorks" -> "howitworks"
    [] w = "imageError" -> "imageerror"
    [] w = "leaveScan" -> "leavescan"
    [] w = "noContext" -> "nocontext"
    [] w = "not an Error" -> "not an error"
    [] w = "onClear" -> "onclear"
    [] w = "parsedSummary" -> "parsedsummary"
    [] w = "replyContent" -> "replycontent"
    [] w = "runAllModels" -> "runallmodels"
    [] w = "runSelectedModels" -> "runselectedmodels"
    [] w = "stopCamera" -> "stopcamera"
    [] OTHER -> w
RECURSIVE ToLowerCase(_)
ToLowerCase(words) ==
  IF Len(words) = 0 THEN <<>>
  ELSE <<LowerWord(Head(words))>> \o ToLowerCase(Tail(words))

\* messages of the errors fetch() and response.json() throw
FailedToFetch == <<"Failed", "to", "fetch">>
LoadFailed == <<"Load", "failed">>
UnexpectedToken == <<"Unexpected", "token">>


(***************************************************************************)
(* app/lib/venice.ts: callVeniceAPI, extractTextFromResponse               *)
(***************************************************************************)
NotFoundStatus == 404

\* what callVeniceAPI comes to for one fetch outcome: the parsed body, or the
\* message of the Error it throws
callVeniceAPI(o) ==
  IF o.kind = "abort"
  THEN [ok |-> FALSE, data |-> EmptyBody,
        message |-> <<"Request", "timed", "out.", "Please", "check", "your",
                      "connection", "and", "try", "again.">>]
  ELSE IF o.kind = "typeerror_fetch"
  THEN (IF Includes(FailedToFetch, <<"fetch">>)
        THEN [ok |-> FALSE, data |-> EmptyBody,
              message |-> <<"Network", "error.", "Please", "check", "your",
                            "internet", "connection", "and", "try", "again.">>]
        ELSE [ok |-> FALSE, data |-> EmptyBody, message |-> FailedToFetch])
  ELSE IF o.kind = "typeerror_other"
  THEN (IF Includes(LoadFailed, <<"fetch">>)
        THEN [ok |-> FALSE, data |-> EmptyBody,
              message |-> <<"Network", "error.", "Please", "check", "your",
                            "internet", "connection", "and", "try", "again.">>]
        ELSE [ok |-> FALSE, data |-> EmptyBody, message |-> LoadFailed])
  ELSE IF ~ResponseOk(o.status)
  THEN (IF o.status = NotFoundStatus
        THEN [ok |-> FALSE, data |-> EmptyBody,
              message |-> <<"Model", "not", "found", "(404).", "The", "selected",
                            "model", "may", "not", "be", "available.">>]
        ELSE [ok |-> FALSE, data |-> EmptyBody,
              message |-> <<"Venice", "API", "error", ToString(o.status)>>
                          \o (IF Len(o.text) > 0 THEN o.text ELSE <<"Unknown", "error">>)])
  ELSE IF ~o.validJson
  THEN [ok |-> FALSE, data |-> EmptyBody, message |-> UnexpectedToken]
  ELSE [ok |-> TRUE, data |-> o.data, message |-> <<>>]

\* the text of one part of an array content: the .map callback of
\* extractTextFromResponse (a part without text gives "")
PartText(item) ==
  IF item.isString THEN item.text
  ELSE IF item.hasText /\ Len(item.text) > 0 THEN item.text
  ELSE IF item.type = <<"o", "u", "t", "p", "u", "t", "_", "t", "e", "x", "t">> THEN item.text
  ELSE IF item.type = <<"t", "e", "x", "t">> THEN item.text
  ELSE <<>>

RECURSIVE MapPartText(_)
MapPartText(items) ==
  IF Len(items) = 0 THEN <<>>
  ELSE <<PartText(Head(items))>> \o MapPartText(Tail(items))

\* child?.text ?? "" on one child of an item's content array: a child that
\* is a string has no text
ChildText(child) ==
  IF ~child.isString /\ child.hasText THEN child.text ELSE <<>>

RECURSIVE MapChildText(_)
MapChildText(items) ==
  IF Len(items) = 0 THEN <<>>
  ELSE <<ChildText(Head(items))>> \o MapChildText(Tail(items))

\* the text of one item of data.output, from item.content
OutputItemText(item) ==
  IF item.t = "string" THEN item.s
  ELSE IF item.t = "array" THEN Join(SelectNonEmpty(MapChildText(item.a)), <<" ">>)
  ELSE <<>>

RECURSIVE MapOutputItemText(_)
MapOutputItemText(items) ==
  IF Len(items) = 0 THEN <<>>
  ELSE <<OutputItemText(Head(items))>> \o MapOutputItemText(Tail(items))

\* extractTextFromResponse(data); <<>> stands for "" and for undefined, which
\* every caller tests alike with !content
extractTextFromResponse(data) ==
  LET fromParts == Trim(Join(SelectNonEmpty(MapPartText(data.content.a)), <<" ">>))
      fromOutputText == Trim(Join(data.output_text.a, <<"\n">>))
      \* data?.output ?? data?.response?.output
      outputContent == IF data.output.t \in {"undefined", "null"}
                       THEN data.response_output ELSE data.output
      fromOutput == Trim(Join(SelectNonEmpty(MapOutputItemText(outputContent.a)), <<" ">>))
  IN IF data.content.t = "string" THEN data.content.s
     ELSE IF data.content.t = "array" /\ Len(fromParts) > 0 THEN fromParts
     ELSE IF data.output_text.t = "array" /\ Len(fromOutputText) > 0 THEN fromOutputText
     ELSE IF outputContent.t = "array" /\ Len(fromOutput) > 0 THEN fromOutput
     ELSE <<>>

\* message.includes("response_format") && message.includes("not supported")
\* on the lower-cased message
SchemaUnsupported_CaseSensitive(message) ==
  Includes(message, <<"response_format">>) /\ Includes(message, <<"not", "supported">>)
SchemaUnsupported(message) ==
  LET lower == ToLowerCase(message)
  IN Includes(lower, <<"response_format">>) /\ Includes(lower, <<"not", "supported">>)


(***************************************************************************)
(* The Venice clients.  State of one call of analyzeImageWithVenice.       *)
(***************************************************************************)
VARIABLES
  client,            \* the revision of lib/venice in use: "venice.ts" or "part_003"
  env,               \* venice.ts: the environment getEnv reads when the module loads
  pc,                \* where the call stands: idle, resize, vision, text, retry, single, done
  hop,               \* part_003 makeVeniceRequest: "direct" or "proxy"
  file,              \* the File argument
  userDishDescription, \* options.userDishDescription?.trim()
  language,          \* venice.ts: options.language || "english"
  visionModel,       \* part_003: options.visionModel ?? DEFAULT_VISION_MODEL
  textModel,         \* part_003: options.textModel ?? DEFAULT_TEXT_MODEL
  requests,          \* every fetch() issued so far, in order
  lastReply,         \* what the latest fetch() came to
  visionReply,       \* what the fetch() that ended the vision stage came to
  textReply,         \* what the first text-model fetch() (venice.ts), or the fetch()
                     \* that ended the text stage (part_003), came to
  foodDescription,   \* the string identifyFoodFromImage / identifyFoodItems returned
  usedSchema,        \* venice.ts calculateNutritionFromDescription
  twoStage,          \* part_003: none, running, ok (returned), threw (caught)
  singleStageCalls,  \* part_003: the argument lists analyzeSingleStage was called with
  outcome            \* the promise analyzeImageWithVenice returned

pipelineVars ==
  <<client, env, pc, hop, file, userDishDescription, language, visionModel, textModel,
    requests, lastReply, visionReply, textReply, foodDescription, usedSchema,
    twoStage, singleStageCalls, outcome>>

\* the cleaning pass of calculateNutritionFromDescription, on its own
VARIABLES
  replyContent,           \* the text extractTextFromResponse returned
  cleanedJson,           \* the text after the cleaning pass
  parsedSummary,            \* what JSON.parse made of it
  cleanPc            \* content, cleaned, parsed

cleanVars == <<replyContent, cleanedJson, parsedSummary, cleanPc>>

\* runAllModels / runSelectedModels of app/lib/multi-model/comparison.ts
VARIABLES
  multiCall,         \* none, runAllModels, runSelectedModels
  imageFile,         \* the File argument
  modelNames,        \* runSelectedModels: the modelNames argument
  analyses,          \* the analyses launched, in launch order: for each, what
                     \* analyzeImageWithVenice came to and the promise
                     \* analyzeWithVenice returned
  settleOrder,       \* the order in which the analyses settled
  multiResult,       \* the promise the call returned
  warnings           \* what the call passed to console.warn

multiVars == <<multiCall, imageFile, modelNames, analyses, settleOrder, multiResult, warnings>>

\* ModelComparisonPanel (part_000) under the parent the plan describes
VARIABLES
  results,           \* the results prop
  selectedModel,     \* the parent's selectedModel state: "null" or a model name
  panelResult,       \* the parent's result state: what onSave stored
  selectedVia,       \* the cards through which onSelectModel has been called
  savedVia           \* the cards through which onSave has been called, each with
                     \* the selectedModel of the render that was clicked

panelVars == <<results, selectedModel, panelResult, selectedVia, savedVia>>

\* the Netlify function of part_006
VARIABLES
  proxyPc,           \* idle, fetching, done
  event,             \* the NetlifyEvent the handler was called with
  upstreamRequests,  \* the fetch() calls the handler made
  upstream,          \* what the fetch() came to
  proxyResponse      \* the NetlifyResponse the handler returned

proxyVars == <<proxyPc, event, upstreamRequests, upstream, proxyResponse>>

\* the App component of src/App.tsx
VARIABLES
  ui,                \* the React state: image, file, loading, error, result,
                     \* showCamera, stream, cameraLoading, activeSection, dishHint,
                     \* progress
  analysis,          \* the analyzeImageWithVenice call onAnalyze awaits, and
                     \* whether startCamera failed while it was pending
  cameraRequests,    \* the startCamera calls awaiting getUserMedia
  captures,          \* the toBlob callbacks pending, each with the stream of the
                     \* render whose capturePhoto was clicked
  tracks,            \* the streams whose tracks have not been stopped
  interval,          \* progressIntervalRef.current is set: the progress
                     \* interval is running
  ticks,             \* how many times the progress interval has fired since
                     \* it was set
  lastOp             \* the last step, when it called stopCamera or ended an
                     \* analysis, and the stream held in state before it

appVars == <<ui, analysis, cameraRequests, captures, tracks, interval, ticks, lastOp>>

\* one call of callVeniceAPI (venice.ts) or callModelAPI (multi-model/api.ts)
VARIABLES
  callee,            \* none, callVeniceAPI, callModelAPI
  config,            \* the ModelConfig callModelAPI was given
  callPc,            \* idle, fetch (awaiting fetch), body (awaiting
                     \* response.text() or response.json()), done
  timeout,           \* the timer: unset, armed, cleared
  elapsed,           \* the delay of the timer has passed since it was set
  controller,        \* controller.signal.aborted
  response,          \* the Response fetch resolved with
  callResult         \* what the call settled with

callVars == <<callee, config, callPc, timeout, elapsed, controller, response, callResult>>

outsidePipeline == <<cleanVars, multiVars, panelVars, proxyVars, appVars, callVars>>
outsideClean == <<pipelineVars, multiVars, panelVars, proxyVars, appVars, callVars>>
outsideMulti == <<pipelineVars, cleanVars, panelVars, proxyVars, appVars, callVars>>
outsidePanel == <<pipelineVars, cleanVars, multiVars, proxyVars, appVars, callVars>>
outsideProxy == <<pipelineVars, cleanVars, multiVars, panelVars, appVars, callVars>>
outsideApp == <<pipelineVars, cleanVars, multiVars, panelVars, proxyVars, callVars>>
outsideCall == <<pipelineVars, cleanVars, multiVars, panelVars, proxyVars, appVars>>

vars == <<pipelineVars, cleanVars, multiVars, panelVars, proxyVars, appVars, callVars>>

VENICE_API_URL == "https://api.venice.ai/api/v1/chat/completions"
VENICE_PROXY_URL == "/api/venice"

\* What getEnv can find: under Vite import.meta.env, under Node process.env,
\* each variable a string or absent ("undefined").
Unset == "undefined"
NoEnvironment ==
  [runtime |-> "vite",
   VENICE_VISION_MODEL |-> Unset, VITE_VENICE_VISION_MODEL |-> Unset,
   VENICE_TEXT_MODEL |-> Unset, VITE_VENICE_TEXT_MODEL |-> Unset]
Environments ==
  { NoEnvironment,
    [NoEnvironment EXCEPT !.VENICE_VISION_MODEL = "llava", !.VITE_VENICE_VISION_MODEL = "qwen-2.5-vl",
                          !.VITE_VENICE_TEXT_MODEL = "gpt"],
    [NoEnvironment EXCEPT !.runtime = "node", !.VITE_VENICE_VISION_MODEL = "llava",
                          !.VENICE_TEXT_MODEL = "llama-3.1-405b"] }

\* getEnv(name): env[name] ?? env[`VITE_${name}`] of import.meta.env, else
\* process.env[name], else undefined
getEnv(name) ==
  IF env.runtime = "vite"
  THEN (IF env[name] # Unset THEN env[name] ELSE env["VITE_" \o name])
  ELSE IF env.runtime = "node" THEN env[name]
  ELSE Unset

VISION_MODEL ==
  IF getEnv("VENICE_VISION_MODEL") # Unset THEN getEnv("VENICE_VISION_MODEL")
  ELSE "mistral-31-24b"
TEXT_MODEL ==
  IF getEnv("VENICE_TEXT_MODEL") # Unset THEN getEnv("VENICE_TEXT_MODEL")
  ELSE "qwen3-235b"
supportedVisionModels == {"qwen-2.5-vl", "mistral-31-24b", "mistral-32-24b"}
supportedTextModels == {"qwen3-235b", "qwen-2.5-qwq-32b", "llama-3.1-405b"}
DEFAULT_VISION_MODEL == "qwen-2.5-vl"
DEFAULT_TEXT_MODEL == "qwen3-235b"

Clients == {"venice.ts", "part_003"}
Files == {"photo"}
HintInputs == {<<>>, <<" ">>, <<" ", "p", "i", "e">>}
Languages == {"english", "french"}
\* "undefined" is an absent option, "llava" and "gpt" are ids the client does not support
OptionInputs ==
  { [hint |-> <<>>, visionModel |-> "undefined", textModel |-> "undefined"],
    [hint |-> <<" ", "p", "i", "e">>, visionModel |-> "mistral-32-24b", textModel |-> "gpt"],
    [hint |-> <<" ">>, visionModel |-> "llava", textModel |-> "llama-3.1-405b"] }

\* the promise of a call; isError tells a rejection with an Error, which has
\* a message, from a rejection with another value
Pending == [state |-> "pending", summary |-> <<>>, message |-> <<>>, isError |-> FALSE]
Fulfilled(toks) == [state |-> "fulfilled", summary |-> toks, message |-> <<>>, isError |-> FALSE]
Rejected(msg) == [state |-> "rejected", summary |-> <<>>, message |-> msg, isError |-> TRUE]
\* i.onerror = reject: the rejection value is the error Event of the image
RejectedWithEvent == [state |-> "rejected", summary |-> <<>>, message |-> <<>>, isError |-> FALSE]
\* how resizeImageToJpeg can end: the image loads and a 2D context is had, the
\* image fails to load, or the canvas gives no 2D context
ResizeOutcomes == {"loaded", "imageError", "noContext"}

\* one fetch(): the url and what the body carries; only the requests to the
\* vision model carry the image
Request(url, stage, model, schema, dataUrl, h, description, lang) ==
  [url |-> url, stage |-> stage, model |-> model, response_format |-> schema,
   image |-> IF stage = "text" THEN "none" ELSE file, dataUrlPrefix |-> dataUrl, hint |-> h,
   description |-> description, language |-> lang]

PipelineInit ==
  /\ client \in Clients
  /\ env \in IF client = "venice.ts" THEN Environments ELSE {NoEnvironment}
  /\ pc = "idle"
  /\ hop = "direct"
  /\ file = "none"
  /\ userDishDescription = <<>>
  /\ language = "english"
  /\ visionModel = "undefined"
  /\ textModel = "undefined"
  /\ requests = <<>>
  /\ lastReply = NoReply
  /\ visionReply = NoReply
  /\ textReply = NoReply
  /\ foodDescription = <<>>
  /\ usedSchema = TRUE
  /\ twoStage = "none"
  /\ singleStageCalls = <<>>
  /\ outcome = [state |-> "none", summary |-> <<>>, message |-> <<>>, isError |-> FALSE]

PipelineIdle == PipelineInit /\ client = "venice.ts" /\ env = NoEnvironment

----------------------------------------------------------------------------
(* app/lib/venice.ts *)

\* the request identifyFoodFromImage builds
VisionRequest ==
  Request(VENICE_API_URL, "vision", VISION_MODEL, FALSE, TRUE, userDishDescription,
          <<>>, "english")

\* buildRequestBody(useSchema) of calculateNutritionFromDescription
buildRequestBody(useSchema, description) ==
  Request(VENICE_API_URL, "text", TEXT_MODEL, useSchema, FALSE, <<>>, description, language)

\* analyzeImageWithVenice(file, options) is called
analyzeImageWithVenice(f, h, lang) ==
  /\ client = "venice.ts"
  /\ pc = "idle"
  /\ pc' = "resize"
  /\ file' = f
  /\ userDishDescription' = Trim(h)
  /\ language' = lang
  /\ outcome' = Pending
  /\ UNCHANGED <<outsidePipeline, client, env, hop, visionModel, textModel, requests, lastReply, visionReply,
                 textReply, foodDescription, usedSchema, twoStage, singleStageCalls>>

\* resizeImageToJpeg settles; identifyFoodFromImage then issues the vision request
resizeImageToJpeg(resized) ==
  /\ client = "venice.ts"
  /\ pc = "resize"
  /\ IF resized = "loaded"
     THEN /\ requests' = Append(requests, VisionRequest)
          /\ pc' = "vision"
          /\ UNCHANGED outcome
     ELSE /\ outcome' = IF resized = "imageError" THEN RejectedWithEvent
                        ELSE Rejected(<<"Canvas", "2D", "context", "unavailable">>)
          /\ pc' = "done"
          /\ UNCHANGED requests
  /\ UNCHANGED <<outsidePipeline, client, env, hop, file, userDishDescription, language, visionModel, textModel,
                 lastReply, visionReply, textReply, foodDescription, usedSchema,
                 twoStage, singleStageCalls>>

\* if (!content) of identifyFoodFromImage
NoDescription_Unchecked(content) == FALSE
NoDescription(content) == Len(content) = 0

\* identifyFoodFromImage: the vision request settles; on a description
\* calculateNutritionFromDescription issues the first text request
identifyFoodFromImage(o) ==
  LET r == callVeniceAPI(o)
      content == extractTextFromResponse(r.data)
  IN /\ client = "venice.ts"
     /\ pc = "vision"
     /\ lastReply' = o
     /\ visionReply' = o
     /\ IF ~r.ok
        THEN /\ outcome' = Rejected(r.message)
             /\ pc' = "done"
             /\ UNCHANGED <<requests, foodDescription>>
        ELSE IF NoDescription(content)
        THEN /\ outcome' = Rejected(<<"Vision", "model", "returned", "no", "food",
                                      "description">>)
             /\ pc' = "done"
             /\ UNCHANGED <<requests, foodDescription>>
        ELSE /\ foodDescription' = content
             /\ requests' = Append(requests, buildRequestBody(TRUE, content))
             /\ pc' = "text"
             /\ UNCHANGED outcome
     /\ UNCHANGED <<outsidePipeline, client, env, hop, file, userDishDescription, language, visionModel,
                    textModel, textReply, usedSchema, twoStage, singleStageCalls>>

\* the tail of calculateNutritionFromDescription once data has arrived:
\* extract the content, clean it, parse it
NutritionFromData(data) ==
  LET content == extractTextFromResponse(data)
      parsed == ParseCleaned(CleanJson(content))
  IN IF Len(content) = 0
     THEN Rejected(<<"Nutrition", "calculation", "returned", "no", "content">>)
     ELSE IF parsed.ok THEN Fulfilled(parsed.toks)
     ELSE Rejected(<<"Failed", "to", "parse", "nutrition", "data.">>)

\* calculateNutritionFromDescription: the first text request settles
calculateNutritionFromDescription(o) ==
  LET r == callVeniceAPI(o)
  IN /\ client = "venice.ts"
     /\ pc = "text"
     /\ lastReply' = o
     /\ textReply' = o
     /\ IF r.ok
        THEN /\ outcome' = NutritionFromData(r.data)
             /\ pc' = "done"
             /\ UNCHANGED <<requests, usedSchema>>
        ELSE IF SchemaUnsupported(r.message)
        THEN /\ usedSchema' = FALSE
             /\ requests' = Append(requests, buildRequestBody(FALSE, foodDescription))
             /\ pc' = "retry"
             /\ UNCHANGED outcome
        ELSE /\ outcome' = Rejected(r.message)
             /\ pc' = "done"
             /\ UNCHANGED <<requests, usedSchema>>
     /\ UNCHANGED <<outsidePipeline, client, env, hop, file, userDishDescription, language, visionModel,
                    textModel, visionReply, foodDescription, twoStage, singleStageCalls>>

\* calculateNutritionFromDescription: the retry without response_format settles
retryWithoutSchema(o) ==
  LET r == callVeniceAPI(o)
  IN /\ client = "venice.ts"
     /\ pc = "retry"
     /\ lastReply' = o
     /\ outcome' = IF r.ok THEN NutritionFromData(r.data) ELSE Rejected(r.message)
     /\ pc' = "done"
     /\ UNCHANGED <<outsidePipeline, client, env, hop, file, userDishDescription, language, visionModel,
                    textModel, requests, visionReply, textReply, foodDescription,
                    usedSchema, twoStage, singleStageCalls>>


----------------------------------------------------------------------------
(* part_003: the model-selectable client with proxy hop and single-stage fallback *)

\* JSON.stringify of a string writes a quote, a backslash and the characters
\* below U+0020 as escapes, and a surrogate that is not one of a pair as \udxxx
HexSet == {HexLower[k] : k \in 1..16}
HighSurrogates == {"\\ud" \o h \o a \o b : h \in {"8", "9", "a", "b"}, a \in HexSet, b \in HexSet}
LowSurrogates == {"\\ud" \o h \o a \o b : h \in {"c", "d", "e", "f"}, a \in HexSet, b \in HexSet}
ControlEscape(c) ==
  CHOOSE e \in {<<"\\", "u", "0", "0", a, b>> : a \in {"0", "1"}, b \in HexSet} :
    CharOfCode("0", "0", e[5], e[6]) = c
SurrogateEscape(c) ==
  CHOOSE e \in {<<"\\", "u", "d", h, a, b>> : h \in HexSet, a \in HexSet, b \in HexSet} :
    "\\ud" \o e[4] \o e[5] \o e[6] = c
QuoteChar(s, k) ==
  LET c == s[k]
      paired == \/ c \in HighSurrogates /\ k < Len(s) /\ s[k + 1] \in LowSurrogates
                \/ c \in LowSurrogates /\ k > 1 /\ s[k - 1] \in HighSurrogates
  IN IF c \in {Q, "\\"} THEN <<"\\", c>>
     ELSE IF c = "\f" THEN <<"\\", "f">>
     ELSE IF c = "\n" THEN <<"\\", "n">>
     ELSE IF c = "\r" THEN <<"\\", "r">>
     ELSE IF c = TAB THEN <<"\\", "t">>
     ELSE IF Len(c) = 1 THEN <<c>>
     ELSE IF c = BS THEN <<"\\", "b">>
     ELSE IF c \in ControlChars THEN ControlEscape(c)
     ELSE IF c \in (HighSurrogates \cup LowSurrogates) /\ ~paired THEN SurrogateEscape(c)
     ELSE <<c>>
QuoteString(chars) ==
  <<Q>> \o Join([k \in 1..Len(chars) |-> QuoteChar(chars, k)], <<>>) \o <<Q>>

\* JSON.stringify of a content that is not a string (an array of parts)
StringifyPart(item) ==
  IF item.isString THEN QuoteString(item.text)
  ELSE <<"{", Q, "t", "y", "p", "e", Q, ":">> \o QuoteString(item.type)
       \o (IF item.hasText
           THEN <<",", Q, "t", "e", "x", "t", Q, ":">> \o QuoteString(item.text)
           ELSE <<>>)
       \o <<"}">>

RECURSIVE MapStringifyPart(_)
MapStringifyPart(items) ==
  IF Len(items) = 0 THEN <<>>
  ELSE <<StringifyPart(Head(items))>> \o MapStringifyPart(Tail(items))

JsonStringify(content) == <<"[">> \o Join(MapStringifyPart(content.a), <<",">>) \o <<"]">>

\* !content on data?.choices?.[0]?.message?.content
ContentFalsy(content) ==
  content.t = "undefined" \/ (content.t = "string" /\ Len(content.s) = 0)

\* typeof content === "string" ? content : JSON.stringify(content)
ContentAsString(content) ==
  IF content.t = "string" THEN content.s ELSE JsonStringify(content)

\* supported.includes(model) ? model : DEFAULT
selectedVisionModel ==
  IF visionModel \in supportedVisionModels THEN visionModel ELSE DEFAULT_VISION_MODEL
selectedTextModel ==
  IF textModel \in supportedTextModels THEN textModel ELSE DEFAULT_TEXT_MODEL

\* the bodies identifyFoodItems, calculateNutrition and analyzeSingleStage post
StageRequest(stage, url, description) ==
  IF stage = "vision"
  THEN Request(url, "vision", selectedVisionModel, FALSE, FALSE, userDishDescription,
               <<>>, "english")
  ELSE IF stage = "text"
  THEN Request(url, "text", selectedTextModel, TRUE, FALSE, <<>>, description, "english")
  ELSE Request(url, "single", selectedVisionModel, TRUE, TRUE, userDishDescription,
               <<>>, "english")

\* what makeVeniceRequest comes to once its last fetch() has settled with o:
\* the Response, or the message of the Error it throws
makeVeniceRequest(o) ==
  IF o.kind = "abort"
  THEN [ok |-> FALSE,
        message |-> <<"Venice", "request", "timed", "out.">>]
  ELSE IF o.kind = "typeerror_fetch" THEN [ok |-> FALSE, message |-> FailedToFetch]
  ELSE IF o.kind = "typeerror_other" THEN [ok |-> FALSE, message |-> LoadFailed]
  ELSE IF ~ResponseOk(o.status)
  THEN (IF Len(o.text) > 0 /\ (Includes(o.text, <<"Unsupported", "tokenizer">>)
                               \/ Includes(o.text, <<"MistralTokenizer">>))
        THEN [ok |-> FALSE,
              message |-> <<"Selected", "model", "is", "not", "supported.">>]
        ELSE [ok |-> FALSE,
              message |-> <<"Venice", "API", "error:", ToString(o.status)>> \o o.text])
  ELSE [ok |-> TRUE, message |-> <<>>]

\* the parse at the end of calculateNutrition and of analyzeSingleStage
parseNutrition(content) ==
  LET a == IndexOf(content.s, "{")
      b == LastIndexOf(content.s, "}")
      jsonStr == IF a > 0 /\ b > 0 THEN SubSeq(content.s, a, b) ELSE content.s
  IN IF content.t = "string" THEN JsonParse(jsonStr)
     ELSE JsonParse(JsonStringify(content))

\* what a stage comes to on the Response makeVeniceRequest returned:
\* res.json(), the content test, the parse
StageResult(stage, o) ==
  LET content == o.data.content
      parsed == parseNutrition(content)
  IN IF ~o.validJson THEN [ok |-> FALSE, text |-> <<>>, toks |-> <<>>, message |-> UnexpectedToken]
     ELSE IF ContentFalsy(content)
     THEN [ok |-> FALSE, text |-> <<>>, toks |-> <<>>,
           message |-> IF stage = "vision"
                       THEN <<"No", "food", "identification", "returned">>
                       ELSE <<"No", "nutrition", "content", "returned">>]
     ELSE IF stage = "vision"
     THEN [ok |-> TRUE, text |-> ContentAsString(content), toks |-> <<>>, message |-> <<>>]
     ELSE IF parsed.ok
     THEN [ok |-> TRUE, text |-> <<>>, toks |-> parsed.toks, message |-> <<>>]
     ELSE [ok |-> FALSE, text |-> <<>>, toks |-> <<>>,
           message |-> <<"Failed", "to", "parse", "nutrition", "JSON">>]

\* analyzeImageWithVenice(file, options) of part_003 is called
analyzeImageWithVenice_p3(f, h, vm, tm) ==
  /\ client = "part_003"
  /\ pc = "idle"
  /\ pc' = "resize"
  /\ file' = f
  /\ userDishDescription' = Trim(h)
  /\ visionModel' = IF vm = "undefined" THEN DEFAULT_VISION_MODEL ELSE vm
  /\ textModel' = IF tm = "undefined" THEN DEFAULT_TEXT_MODEL ELSE tm
  /\ outcome' = Pending
  /\ UNCHANGED <<outsidePipeline, client, env, hop, language, requests, lastReply, visionReply, textReply,
                 foodDescription, usedSchema, twoStage, singleStageCalls>>

\* resizeImageToJpeg settles (outside the try); identifyFoodItems posts its request
resizeImageToJpeg_p3(resized) ==
  /\ client = "part_003"
  /\ pc = "resize"
  /\ IF resized = "loaded"
     THEN /\ requests' = Append(requests, StageRequest("vision", VENICE_API_URL, <<>>))
          /\ pc' = "vision"
          /\ twoStage' = "running"
          /\ UNCHANGED outcome
     ELSE /\ outcome' = IF resized = "imageError" THEN RejectedWithEvent
                        ELSE Rejected(<<"Canvas", "2D", "context", "unavailable">>)
          /\ pc' = "done"
          /\ UNCHANGED <<requests, twoStage>>
  /\ UNCHANGED <<outsidePipeline, client, env, hop, file, userDishDescription, language, visionModel, textModel,
                 lastReply, visionReply, textReply, foodDescription, usedSchema,
                 singleStageCalls>>

\* the stages the try block of analyzeImageWithVenice encloses
InTryBlock_VisionOnly(stage) == stage = "vision"
InTryBlock(stage) == stage \in {"vision", "text"}

\* the stage at pc ends: r is what makeVeniceRequest came to on its last fetch o.
\* A throw inside the try block is caught and analyzeSingleStage is called;
\* a throw of analyzeSingleStage rejects the call.
StageSettles(o) ==
  LET m == makeVeniceRequest(o)
      r == IF m.ok THEN StageResult(pc, o)
           ELSE [ok |-> FALSE, text |-> <<>>, toks |-> <<>>, message |-> m.message]
  IN /\ visionReply' = IF pc = "vision" THEN o ELSE visionReply
     /\ textReply' = IF pc = "text" THEN o ELSE textReply
     /\ hop' = "direct"
     /\ IF r.ok /\ pc = "vision"
        THEN /\ foodDescription' = r.text
             /\ requests' = Append(requests, StageRequest("text", VENICE_API_URL, r.text))
             /\ pc' = "text"
             /\ UNCHANGED <<twoStage, singleStageCalls, outcome>>
        ELSE IF r.ok
        THEN /\ outcome' = Fulfilled(r.toks)
             /\ pc' = "done"
             /\ twoStage' = IF pc = "text" THEN "ok" ELSE twoStage
             /\ UNCHANGED <<foodDescription, requests, singleStageCalls>>
        ELSE IF InTryBlock(pc)
        THEN /\ twoStage' = "threw"
             /\ singleStageCalls' =
                  Append(singleStageCalls,
                         [image |-> file, hint |-> userDishDescription, model |-> visionModel])
             /\ requests' = Append(requests, StageRequest("single", VENICE_API_URL, <<>>))
             /\ pc' = "single"
             /\ UNCHANGED <<foodDescription, outcome>>
        ELSE /\ outcome' = Rejected(r.message)
             /\ pc' = "done"
             /\ UNCHANGED <<foodDescription, requests, twoStage, singleStageCalls>>

\* makeVeniceRequest: the direct post settles; a non-OK response is retried
\* through the proxy with the same body
postDirect(o) ==
  /\ client = "part_003"
  /\ pc \in {"vision", "text", "single"}
  /\ hop = "direct"
  /\ lastReply' = o
  /\ IF o.kind = "response" /\ ~ResponseOk(o.status)
     THEN /\ requests' = Append(requests, StageRequest(pc, VENICE_PROXY_URL, foodDescription))
          /\ hop' = "proxy"
          /\ UNCHANGED <<pc, visionReply, textReply, foodDescription, twoStage,
                         singleStageCalls, outcome>>
     ELSE StageSettles(o)
  /\ UNCHANGED <<outsidePipeline, client, env, file, userDishDescription, language, visionModel, textModel,
                 usedSchema>>

\* makeVeniceRequest: the post to the proxy settles
postProxy(o) ==
  /\ client = "part_003"
  /\ pc \in {"vision", "text", "single"}
  /\ hop = "proxy"
  /\ lastReply' = o
  /\ StageSettles(o)
  /\ UNCHANGED <<outsidePipeline, client, env, file, userDishDescription, language, visionModel, textModel,
                 usedSchema>>

PipelineNext ==
  \/ \E f \in Files, h \in HintInputs, lang \in Languages : analyzeImageWithVenice(f, h, lang)
  \/ \E resized \in ResizeOutcomes : resizeImageToJpeg(resized)
  \/ \E o \in FetchOutcomes : identifyFoodFromImage(o)
  \/ \E o \in FetchOutcomes : calculateNutritionFromDescription(o)
  \/ \E o \in FetchOutcomes : retryWithoutSchema(o)
  \/ \E f \in Files, options \in OptionInputs :
       analyzeImageWithVenice_p3(f, options.hint, options.visionModel, options.textModel)
  \/ \E resized \in ResizeOutcomes : resizeImageToJpeg_p3(resized)
  \/ \E o \in FetchOutcomes : postDirect(o)
  \/ \E o \in FetchOutcomes : postProxy(o)


(***************************************************************************)
(* The cleaning pass on replies that are well-formed JSON of the schema    *)
(* the text request asks for (app/lib/venice.ts 326-373): an object with   *)
(* every member the schema requires, each of the type the schema gives it: *)
(* title, confidence, servingDescription, totalCalories and macros, with   *)
(* grams and calories in each of macros.protein, macros.carbs, macros.fat. *)
(***************************************************************************)
KeyTitle == <<"t", "i", "t", "l", "e">>
KeyTotalCalories == <<"t", "o", "t", "a", "l", "C", "a", "l", "o", "r", "i", "e", "s">>
KeyConfidence == <<"c", "o", "n", "f", "i", "d", "e", "n", "c", "e">>
KeyMacros == <<"m", "a", "c", "r", "o", "s">>
KeyProtein == <<"p", "r", "o", "t", "e", "i", "n">>
KeyServingDescription ==
  <<"s", "e", "r", "v", "i", "n", "g", "D", "e", "s", "c", "r", "i", "p", "t", "i", "o", "n">>
KeyCarbs == <<"c", "a", "r", "b", "s">>
KeyFat == <<"f", "a", "t">>
KeyGrams == <<"g", "r", "a", "m", "s">>
KeyCalories == <<"c", "a", "l", "o", "r", "i", "e", "s">>

Str(chars) == <<Q>> \o chars \o <<Q>>
Member(key, sp, value) == Str(key) \o <<":">> \o sp \o value
Object(members) == <<"{">> \o members \o <<"}">>

\* a fraction of LongDecimalDigits digits
Threes(n) == [k \in 1..n |-> "3"]

Titles ==
  { Pie,
    <<"R", "i", "c", "e", ",", " ", "p", "e", "a", "s">>,
    <<"M", "i", "x", " ", "2", ":", "1", ",", " ", "h", "o", "t">> }
CalorieTexts ==
  { <<"3", "5", "0">>,
    <<"3", "5", "0", ".", "5">>,
    <<"3", "5", "0", ".">> \o Threes(LongDecimalDigits) }
ConfidenceTexts == { <<"1">>, <<"0", ".", "9">> }
GramTexts == { <<"1", "2">>, <<"1", "2", ".", "5">> }
Spacings == { <<>>, <<" ">> }

\* a macro of the schema: { "grams": ..., "calories": ... }
MacroObject(grams, calories, sp) ==
  Object(Member(KeyGrams, sp, grams) \o <<",">> \o sp \o Member(KeyCalories, sp, calories))

SchemaReply(title, totalCalories, confidence, grams, sp) ==
  Object(Member(KeyTitle, sp, Str(title)) \o <<",">> \o sp
         \o Member(KeyConfidence, sp, confidence) \o <<",">> \o sp
         \o Member(KeyServingDescription, sp, Str(<<"1", " ", "b", "o", "w", "l">>))
         \o <<",">> \o sp
         \o Member(KeyTotalCalories, sp, totalCalories) \o <<",">> \o sp
         \o Member(KeyMacros, sp,
              Object(Member(KeyProtein, sp, MacroObject(grams, <<"4", "8">>, sp))
                     \o <<",">> \o sp
                     \o Member(KeyCarbs, sp, MacroObject(<<"3", "0">>, <<"1", "2", "0">>, sp))
                     \o <<",">> \o sp
                     \o Member(KeyFat, sp, MacroObject(<<"1", "0">>, <<"9", "0">>, sp)))))

SchemaReplies ==
  { SchemaReply(t, c, f, g, sp) :
      t \in Titles, c \in CalorieTexts, f \in ConfidenceTexts, g \in GramTexts,
      sp \in Spacings }

NotParsed == [ok |-> FALSE, toks |-> <<>>]

CleanIdle ==
  /\ replyContent = <<>>
  /\ cleanedJson = <<>>
  /\ parsedSummary = NotParsed
  /\ cleanPc = "idle"

\* the text model replied with well-formed JSON of the schema
CleanInit ==
  /\ replyContent \in SchemaReplies
  /\ cleanedJson = <<>>
  /\ parsedSummary = NotParsed
  /\ cleanPc = "replyContent"

\* venice.ts 615-633: the match and the six replaces
cleanJsonText ==
  /\ cleanPc = "replyContent"
  /\ cleanedJson' = CleanJson(replyContent)
  /\ cleanPc' = "cleaned"
  /\ UNCHANGED <<outsideClean, replyContent, parsedSummary>>

\* venice.ts 638-649: JSON.parse, with the "title" fallback
parseJsonText ==
  /\ cleanPc = "cleaned"
  /\ parsedSummary' = ParseCleaned(cleanedJson)
  /\ cleanPc' = "parsedSummary"
  /\ UNCHANGED <<outsideClean, replyContent, cleanedJson>>

CleanNext == cleanJsonText \/ parseJsonText

(***************************************************************************)
(* app/lib/multi-model: the Venice adapter (api.ts 248-328) and the        *)
(* comparison module (comparison.ts).  analysisTime, a reading of the      *)
(* clock, is left out of the results.                                      *)
(***************************************************************************)
MaxNames == 2

VENICE_CONFIG == [name |-> "venice", displayName |-> "Venice AI"]

\* a field as JavaScript sees it: a number, a string, or undefined
Num(n) == [t |-> "number", n |-> n]
Text(s) == [t |-> "string", s |-> s]
Undefined == [t |-> "undefined", n |-> 0]
Falsy(c) ==
  \/ c.t = "undefined"
  \/ (c.t = "number" /\ c.n = 0)
  \/ (c.t = "string" /\ c.s = "")

\* the macros of a NutritionSummary with every field n
Macros(n) ==
  [protein |-> [grams |-> n, calories |-> n],
   carbs |-> [grams |-> n, calories |-> n, fiber |-> n, sugar |-> n],
   fat |-> [grams |-> n, calories |-> n, saturated |-> n, unsaturated |-> n]]

\* what analyzeImageWithVenice can come to: the value JSON.parse made of the
\* text model's reply, which is an object or, for the reply null, null.  The
\* cleaning pass (venice.ts 633) has put quotes around every number that is
\* the value of a member, so those fields are strings.
Summaries ==
  [t : {"object"}, title : {"pie", "rice"},
   confidence : {Text("90"), Text("0"), Text(""), Undefined},
   totalCalories : {Text("350")}, macros : {Macros(Text("12"))}, items : {<<"pie">>},
   notes : {<<>>}]
NoSummary ==
  [t |-> "undefined", title |-> "", confidence |-> Undefined, totalCalories |-> Num(0),
   macros |-> Macros(Num(0)), items |-> <<>>, notes |-> <<>>]
NullSummary == [NoSummary EXCEPT !.t = "null"]
ErrorMessages == {<<"Network", "error">>, <<>>}
\* the message of the TypeError that reading a property of null throws
NullReadMessage == <<"Cannot", "read", "properties", "of", "null">>
\* String(error) of the error Event resizeImageToJpeg rejects with
EventAsString == <<"[object", "Event]">>
AnalysisPending ==
  [state |-> "pending", summary |-> NoSummary, message |-> <<>>, isError |-> FALSE]
\* fulfilled, rejected with an Error, or rejected with the error Event
AnalysisOutcomes ==
  [state : {"fulfilled"}, summary : Summaries \cup {NullSummary}, message : {<<>>},
   isError : {FALSE}]
  \cup [state : {"rejected"}, summary : {NoSummary}, message : ErrorMessages,
         isError : {TRUE}]
  \cup {[state |-> "rejected", summary |-> NoSummary, message |-> <<>>, isError |-> FALSE]}

\* createFallbackNutritionSummary(error)
createFallbackNutritionSummary(message) ==
  [t |-> "object", title |-> "Analysis Failed", confidence |-> Num(0),
   totalCalories |-> Num(0), macros |-> Macros(Num(0)), items |-> <<>>,
   notes |-> <<<<"Error:">> \o message,
               <<"Please", "try", "again", "or", "use", "a", "different", "model.">>>>]

\* what the try block of analyzeWithVenice throws, if anything: the rejection
\* of analyzeImageWithVenice, or the TypeError of nutritionSummary.confidence
\* on a null summary
Throws(o) == o.state = "rejected" \/ o.summary.t = "null"
\* error instanceof Error ? error.message : String(error)
ThrownMessage(o) ==
  IF o.state = "rejected" THEN (IF o.isError THEN o.message ELSE EventAsString)
  ELSE NullReadMessage

\* the MultiModelResult analyzeWithVenice resolves with, given what
\* analyzeImageWithVenice came to; it resolves in the catch branch too
analyzeWithVenice(o) ==
  IF ~Throws(o)
  THEN [modelName |-> VENICE_CONFIG.name,
        displayName |-> VENICE_CONFIG.displayName,
        nutritionSummary |-> o.summary,
        confidence |-> IF Falsy(o.summary.confidence) THEN Num(85) ELSE o.summary.confidence,
        hasErrorField |-> FALSE,
        error |-> <<>>]
  ELSE [modelName |-> VENICE_CONFIG.name,
        displayName |-> VENICE_CONFIG.displayName,
        nutritionSummary |-> createFallbackNutritionSummary(ThrownMessage(o)),
        confidence |-> Num(0),
        hasErrorField |-> TRUE,
        error |-> ThrownMessage(o)]

NoValue == analyzeWithVenice(AnalysisPending)
PromisePending == [state |-> "pending", value |-> NoValue]
PromiseFulfilled(v) == [state |-> "fulfilled", value |-> v]
Launched == [analysis |-> AnalysisPending, promise |-> PromisePending]

ModelNameInputs == {"venice", "VENICE", "gemini"}
RECURSIVE SeqsUpTo(_, _)
SeqsUpTo(set, n) ==
  IF n = 0 THEN {<<>>}
  ELSE LET shorter == SeqsUpTo(set, n - 1)
       IN shorter \cup {Append(q, x) : q \in shorter, x \in set}
NameLists == SeqsUpTo(ModelNameInputs, MaxNames)

\* the for / switch of runSelectedModels, and the default to Venice
KnownNames_CaseSensitive(names) == SelectSeq(names, LAMBDA n : n = "venice")
KnownNames(names) == SelectSeq(names, LAMBDA n : LowerWord(n) = "venice")
modelPromises(names) ==
  IF Len(KnownNames(names)) = 0 THEN <<Launched>>
  ELSE [k \in 1..Len(KnownNames(names)) |-> Launched]

\* the console.warn calls of runSelectedModels
UnknownModel(name) == <<"Unknown model:", name>>
NoValidModels == <<"No valid models selected, defaulting to Venice">>
modelWarnings(names) ==
  LET unknown == SelectSeq(names, LAMBDA n : LowerWord(n) # "venice")
  IN [k \in 1..Len(unknown) |-> UnknownModel(unknown[k])]
     \o (IF Len(KnownNames(names)) = 0 THEN <<NoValidModels>> ELSE <<>>)

\* Promise.allSettled(promises) resolves once none of them is pending
AllSettled_First(list) == \E i \in 1..Len(list) : list[i].promise.state # "pending"
AllSettled(list) == \A i \in 1..Len(list) : list[i].promise.state # "pending"

\* results.filter(r => r.status === "fulfilled").map(r => r.value)
RECURSIVE successfulResults(_)
successfulResults(list) ==
  IF Len(list) = 0 THEN <<>>
  ELSE (IF Head(list).promise.state = "fulfilled" THEN <<Head(list).promise.value>> ELSE <<>>)
       \o successfulResults(Tail(list))

MultiPending == [state |-> "pending", value |-> <<>>]

MultiIdle ==
  /\ multiCall = "none"
  /\ imageFile = "none"
  /\ modelNames = <<>>
  /\ analyses = <<>>
  /\ settleOrder = <<>>
  /\ multiResult = [state |-> "none", value |-> <<>>]
  /\ warnings = <<>>

MultiInit == MultiIdle

\* runAllModels(imageFile, options) is called
runAllModels(f) ==
  /\ multiCall = "none"
  /\ multiCall' = "runAllModels"
  /\ imageFile' = f
  /\ analyses' = <<Launched>>
  /\ multiResult' = MultiPending
  /\ UNCHANGED <<outsideMulti, modelNames, settleOrder, warnings>>

\* runSelectedModels(imageFile, modelNames, options) is called
runSelectedModels(f, names) ==
  /\ multiCall = "none"
  /\ multiCall' = "runSelectedModels"
  /\ imageFile' = f
  /\ modelNames' = names
  /\ analyses' = modelPromises(names)
  /\ multiResult' = MultiPending
  /\ warnings' = modelWarnings(names)
  /\ UNCHANGED <<outsideMulti, settleOrder>>

\* the analyzeImageWithVenice call of analysis i settles with o; the adapter
\* resolves its promise, and when that was the last one pending the await
\* on Promise.allSettled returns and the call resolves
analysisSettles(i, o) ==
  /\ i \in 1..Len(analyses)
  /\ analyses[i].analysis.state = "pending"
  /\ LET after == [analyses EXCEPT ![i] =
                     [analysis |-> o, promise |-> PromiseFulfilled(analyzeWithVenice(o))]]
     IN /\ analyses' = after
        /\ multiResult' =
             IF multiResult.state = "pending" /\ AllSettled(after)
             THEN [state |-> "fulfilled", value |-> successfulResults(after)]
             ELSE multiResult
  /\ settleOrder' = Append(settleOrder, i)
  /\ UNCHANGED <<outsideMulti, multiCall, imageFile, modelNames, warnings>>

MultiNext ==
  \/ \E f \in Files : runAllModels(f)
  \/ \E f \in Files, names \in NameLists : runSelectedModels(f, names)
  \/ \E i \in 1..MaxNames, o \in AnalysisOutcomes : analysisSettles(i, o)

(***************************************************************************)
(* ModelComparisonPanel and ModelResultCard (part_000), rendered by the    *)
(* parent of plans/multi-model-nutrition-detection.md 369-378 with the     *)
(* results runAllModels / runSelectedModels returned.                      *)
(***************************************************************************)
MaxResults == 2

\* the arrays the comparison module can return
AdapterResults == {analyzeWithVenice(o) : o \in AnalysisOutcomes}
ResultLists == SeqsUpTo(AdapterResults, MaxResults)

\* const hasError = result.confidence === 0 || result.error
hasError(result) ==
  \/ result.confidence = Num(0)
  \/ (result.hasErrorField /\ Len(result.error) > 0)

\* isSelected={selectedModel === result.modelName}
isSelected(k) == selectedModel = results[k].modelName

\* the "Save This Result" button is rendered and not disabled
SaveEnabled_WhenRendered(k) == ~hasError(results[k])
SaveEnabled(k) == ~hasError(results[k]) /\ isSelected(k)

PanelIdle ==
  /\ results = <<>>
  /\ selectedModel = "null"
  /\ panelResult = NoSummary
  /\ selectedVia = {}
  /\ savedVia = {}

PanelInit ==
  /\ results \in ResultLists
  /\ selectedModel = "null"
  /\ panelResult = NoSummary
  /\ selectedVia = {}
  /\ savedVia = {}

\* onSelect of card k: onSelectModel(result.modelName), the parent's setSelectedModel
onSelect(k) ==
  /\ selectedModel' = results[k].modelName
  /\ selectedVia' = selectedVia \cup {k}

\* a click on card k outside its buttons: onClick={hasError ? undefined : onSelect}
clickCard(k) ==
  /\ k \in 1..Len(results)
  /\ IF hasError(results[k])
     THEN UNCHANGED <<selectedModel, selectedVia>>
     ELSE onSelect(k)
  /\ UNCHANGED <<outsidePanel, results, panelResult, savedVia>>

\* a click on "Select This Result" of card k, rendered when !hasError; the
\* click bubbles to the card, whose onClick calls onSelect again
clickSelect(k) ==
  /\ k \in 1..Len(results)
  /\ ~hasError(results[k])
  /\ onSelect(k)
  /\ UNCHANGED <<outsidePanel, results, panelResult, savedVia>>

\* a click on "Save This Result" of card k, rendered when !hasError.  Enabled:
\* onSave(result), then the click bubbles to the card's onSelect.  Disabled:
\* the button's handler does not run; whether the click reaches the card's
\* onClick depends on the browser.
clickSave(k, reachesCard) ==
  /\ k \in 1..Len(results)
  /\ ~hasError(results[k])
  /\ IF SaveEnabled(k)
     THEN /\ savedVia' = savedVia \cup {[card |-> k, selectedModel |-> selectedModel]}
          /\ panelResult' = results[k].nutritionSummary
          /\ onSelect(k)
     ELSE /\ UNCHANGED <<savedVia, panelResult>>
          /\ IF reachesCard THEN onSelect(k) ELSE UNCHANGED <<selectedModel, selectedVia>>
  /\ UNCHANGED <<outsidePanel, results>>

PanelNext ==
  \/ \E k \in 1..MaxResults : clickCard(k)
  \/ \E k \in 1..MaxResults : clickSelect(k)
  \/ \E k \in 1..MaxResults, reachesCard \in BOOLEAN : clickSave(k, reachesCard)

(***************************************************************************)
(* The Netlify function that proxies Venice (part_006)                     *)
(***************************************************************************)
MethodNotAllowed == 405
InternalError == 500

\* event.body: undefined, null or a string
BodyAbsent == [t |-> "undefined", s |-> ""]
BodyNull == [t |-> "null", s |-> ""]
BodyText(text) == [t |-> "string", s |-> text]

HttpMethods == {"POST", "GET", "OPTIONS", "post"}
EventBodies ==
  {BodyAbsent, BodyNull, BodyText(""), BodyText("{\"model\":\"qwen3-235b\"}"),
   BodyText("not json")}
Events == [httpMethod : HttpMethods, body : EventBodies]

\* what the upstream fetch can come to: a Response with any status and
\* text, or a thrown error
UpstreamStatuses == {200, 400, 404, 429, 500, 503}
UpstreamTexts == {"", "{\"choices\":[]}", "Unsupported tokenizer"}
UpstreamOutcomes ==
  [kind : {"response"}, status : UpstreamStatuses, text : UpstreamTexts, message : {""}]
  \cup [kind : {"throws"}, status : {0}, text : {""}, message : {"fetch failed", ""}]
NoUpstream == [kind |-> "none", status |-> 0, text |-> "", message |-> ""]

NetlifyResponse(statusCode, body) == [statusCode |-> statusCode, body |-> body]
NoResponse == NetlifyResponse(0, "")
NoEvent == [httpMethod |-> "", body |-> BodyAbsent]

\* const body = event.body || "{}"
RequestBody_Verbatim(body) == body.s
RequestBody(body) == IF body.t = "string" /\ body.s # "" THEN body.s ELSE "{}"

ProxyIdle ==
  /\ proxyPc = "idle"
  /\ event = NoEvent
  /\ upstreamRequests = <<>>
  /\ upstream = NoUpstream
  /\ proxyResponse = NoResponse

ProxyInit == ProxyIdle

\* handler(event) is called: 405 for a method other than POST, else the fetch
handler(e) ==
  /\ proxyPc = "idle"
  /\ event' = e
  /\ IF e.httpMethod # "POST"
     THEN /\ proxyResponse' = NetlifyResponse(MethodNotAllowed, "Method Not Allowed")
          /\ proxyPc' = "done"
          /\ UNCHANGED upstreamRequests
     ELSE /\ upstreamRequests' =
               Append(upstreamRequests,
                      [url |-> VENICE_API_URL, method |-> "POST", body |-> RequestBody(e.body)])
          /\ proxyPc' = "fetching"
          /\ UNCHANGED proxyResponse
  /\ UNCHANGED <<outsideProxy, upstream>>

\* the fetch settles: the status and text of the response are returned, or
\* the catch returns 500 with the message of the error
handlerReturns(o) ==
  /\ proxyPc = "fetching"
  /\ upstream' = o
  /\ proxyResponse' =
       IF o.kind = "response" THEN NetlifyResponse(o.status, o.text)
       ELSE NetlifyResponse(InternalError, o.message)
  /\ proxyPc' = "done"
  /\ UNCHANGED <<outsideProxy, event, upstreamRequests>>

ProxyNext ==
  \/ \E e \in Events : handler(e)
  \/ \E o \in UpstreamOutcomes : handlerReturns(o)

(***************************************************************************)
(* src/App.tsx.  ui is the state with every update made so far applied.   *)
(* A handler and the render and effects it causes are one step, with one   *)
(* exception.  What onAnalyze does after its await runs in a promise       *)
(* continuation: React (18, which the route modules of app/routes need)    *)
(* renders its updates in a later task and runs the effect on [loading] in *)
(* a task after that, and the progress interval, which only that effect    *)
(* clears, can fire before either.  The continuation and the effect are    *)
(* two steps, analyzeSettles and loadingEffect, and progressTick can come  *)
(* between them: its updater is then applied to the progress the           *)
(* continuation set, and the render shows the outcome with that progress   *)
(* until the effect has run.  React runs a pending effect before it        *)
(* renders what a later handler set, so a handler that comes between the   *)
(* two steps takes the effect with it (FlushEffect).                       *)
(* null is "null" for a string state and 0 for the stream; a stream is     *)
(* named by a number no other stream or pending call is using.  isMobile,  *)
(* useFrench, analysisTime and analysisElapsed take no part in the camera  *)
(* or in the outcome of an analysis and are left out, and so is the timer  *)
(* interval, which writes analysisElapsed alone.                           *)
(***************************************************************************)
MaxStreams == 2
MaxTicks == 2
MaxCaptures == 1

ProgressCap == 95
ProgressDone == 100

PickedFiles == {"A", "B"}
Hints == {"", " pie "}
\* Math.min(prev + increment, 95) with an increment of 1.5 + Math.random() * 2,
\* in whole percent
Increments == {2, 3}

CameraMessage == "Camera not available. Please check permissions or try uploading a photo instead."
\* what analyzeImageWithVenice fulfils with: a summary, or null when the text
\* model's reply was the JSON text null
AnalysisSummaries == {"summary", "null"}
\* what analyzeImageWithVenice rejects with: an Error with a message, or a
\* value that is not an Error
NotAnError == "not an Error"
AnalysisErrors == {"Network error", NotAnError}
AppOutcomes ==
  [state : {"fulfilled"}, summary : AnalysisSummaries, message : {""}]
  \cup [state : {"rejected"}, summary : {""}, message : AnalysisErrors]

\* err instanceof Error ? err.message : "Failed to analyze image"
FailureMessage(reason) ==
  IF reason = NotAnError THEN "Failed to analyze image" ELSE reason

NoAnalysis ==
  [state |-> "none", file |-> "null", hint |-> "",
   outcome |-> [state |-> "none", summary |-> "", message |-> ""], cameraFailed |-> FALSE]

\* dishHint.trim() || undefined, over Hints
TrimHint(text) == IF text = " pie " THEN "pie" ELSE text

Op(name) == [name |-> name, stream |-> ui.stream]
OtherOp == [name |-> "other", stream |-> 0]

AppInit ==
  /\ ui = [image |-> "null", file |-> "null", loading |-> FALSE, error |-> "null",
           result |-> "null", showCamera |-> FALSE, stream |-> 0,
           cameraLoading |-> FALSE, activeSection |-> "scan", dishHint |-> "",
           progress |-> 0]
  /\ analysis = NoAnalysis
  /\ cameraRequests = {}
  /\ captures = {}
  /\ tracks = {}
  /\ interval = FALSE
  /\ ticks = 0
  /\ lastOp = OtherOp

AppIdle == AppInit

\* the effect on [loading] has yet to run for the render in which loading
\* became false: the interval it clears is still running
EffectPending == interval /\ ~ui.loading

\* what the effect on [loading] makes of progress once loading is false
ProgressAfterLoading_Reset(progress) == 0
ProgressAfterLoading(progress) == IF progress = ProgressDone THEN progress ELSE 0

\* the state a handler's updates are rendered from: React runs a pending
\* effect on [loading] first, and its else branch resets progress
Flushed ==
  IF EffectPending THEN [ui EXCEPT !.progress = ProgressAfterLoading(ui.progress)]
  ELSE ui

\* the same effect's clearAnalysisIntervals(), in the step of the handler
\* whose render it runs before
FlushEffect ==
  /\ interval' = (interval /\ ui.loading)
  /\ ticks' = IF EffectPending THEN 0 ELSE ticks

\* the cleanup of the effect on [stream]: a stream that leaves the state has
\* its tracks stopped
AfterStreamChange(live, next) ==
  IF ui.stream # 0 /\ ui.stream # next THEN live \ {ui.stream} ELSE live

\* what stopCamera, called from a render that held closureStream, makes of
\* the state u
StopCameraState_KeepLoading(u, closureStream) ==
  [u EXCEPT !.stream = IF closureStream # 0 THEN 0 ELSE u.stream,
            !.showCamera = FALSE]
StopCameraState(u, closureStream) ==
  [u EXCEPT !.stream = IF closureStream # 0 THEN 0 ELSE u.stream,
            !.showCamera = FALSE,
            !.cameraLoading = FALSE]

\* stopCamera() from a render that held closureStream, applied to the state u
\* the handler has built so far
StopCamera(u, closureStream) ==
  /\ ui' = StopCameraState(u, closureStream)
  /\ tracks' = AfterStreamChange(tracks \ {closureStream}, ui'.stream)

\* the names no stream, pending getUserMedia call or pending callback uses
FreeStreams == (1..MaxStreams) \ (cameraRequests \cup captures \cup tracks \cup {ui.stream})

\* the scan section is rendered
ScanShown == ui.activeSection = "scan"

\* onSelect: a file was picked in the file input
onSelectFile(f) ==
  /\ ScanShown
  /\ ui' = [Flushed EXCEPT !.result = "null", !.error = "null", !.file = f,
                           !.image = f, !.showCamera = FALSE]
  /\ FlushEffect
  /\ lastOp' = OtherOp
  /\ UNCHANGED <<outsideApp, analysis, cameraRequests, captures, tracks>>

\* startCamera up to its first await
startCamera ==
  /\ ScanShown
  /\ ~ui.showCamera
  /\ FreeStreams # {}
  /\ cameraRequests' = cameraRequests \cup {CHOOSE r \in FreeStreams : \A q \in FreeStreams : r <= q}
  /\ ui' = [Flushed EXCEPT !.error = "null", !.cameraLoading = TRUE, !.showCamera = TRUE]
  /\ FlushEffect
  /\ lastOp' = OtherOp
  /\ UNCHANGED <<outsideApp, analysis, captures, tracks>>

\* startCamera after its loop over the configurations: one getUserMedia call
\* resolved with a stream, or all of them rejected
getUserMediaSettles(r, granted) ==
  /\ r \in cameraRequests
  /\ cameraRequests' = cameraRequests \ {r}
  /\ IF granted
     THEN /\ ui' = [Flushed EXCEPT !.stream = r, !.cameraLoading = FALSE,
                                   !.image = "null", !.file = "null"]
          /\ tracks' = AfterStreamChange(tracks \cup {r}, r)
          /\ UNCHANGED analysis
     ELSE /\ ui' = [Flushed EXCEPT !.error = CameraMessage, !.showCamera = FALSE,
                                   !.cameraLoading = FALSE]
          /\ analysis' = [analysis EXCEPT
                           !.cameraFailed = IF analysis.state = "pending" THEN TRUE ELSE @]
          /\ UNCHANGED tracks
  /\ FlushEffect
  /\ lastOp' = OtherOp
  /\ UNCHANGED <<outsideApp, captures>>

\* the X button of the camera view
stopCamera ==
  /\ ScanShown
  /\ ui.showCamera
  /\ StopCamera(Flushed, ui.stream)
  /\ FlushEffect
  /\ lastOp' = Op("stopCamera")
  /\ UNCHANGED <<outsideApp, analysis, cameraRequests, captures>>

\* capturePhoto up to canvas.toBlob
capturePhoto ==
  /\ ScanShown
  /\ ui.showCamera
  /\ Cardinality(captures) < MaxCaptures
  /\ captures' = captures \cup {ui.stream}
  /\ lastOp' = OtherOp
  /\ UNCHANGED <<outsideApp, ui, analysis, cameraRequests, tracks, interval, ticks>>

\* the toBlob callback: a blob when the video had a frame to draw, which takes
\* a stream; with a blob the captured file is set and stopCamera is called
\* from the render that was clicked
toBlobCallback(closureStream, blob) ==
  /\ closureStream \in captures
  /\ blob => closureStream # 0
  /\ captures' = captures \ {closureStream}
  /\ IF blob
     THEN /\ StopCamera([Flushed EXCEPT !.file = "capture", !.image = "capture"], closureStream)
          /\ FlushEffect
          /\ lastOp' = Op("capturePhoto")
     ELSE /\ UNCHANGED <<ui, tracks, interval, ticks>>
          /\ lastOp' = OtherOp
  /\ UNCHANGED <<outsideApp, analysis, cameraRequests>>

\* a navigation button: setActiveSection(id), and the effect that calls
\* stopCamera when the section changed to one other than "scan"
setActiveSection(id) ==
  /\ IF id # ui.activeSection /\ id # "scan"
     THEN /\ StopCamera([Flushed EXCEPT !.activeSection = id], ui.stream)
          /\ lastOp' = Op("leaveScan")
     ELSE /\ ui' = [Flushed EXCEPT !.activeSection = id]
          /\ lastOp' = OtherOp
          /\ UNCHANGED tracks
  /\ FlushEffect
  /\ UNCHANGED <<outsideApp, analysis, cameraRequests, captures>>

\* the dish description, disabled while loading
setDishHint(text) ==
  /\ ScanShown
  /\ ~ui.loading
  /\ ui' = [Flushed EXCEPT !.dishHint = text]
  /\ FlushEffect
  /\ lastOp' = OtherOp
  /\ UNCHANGED <<outsideApp, analysis, cameraRequests, captures, tracks>>

\* const disableAnalyze = !file || loading
disableAnalyze_FileOnly == ui.file = "null"
disableAnalyze == ui.file = "null" \/ ui.loading

\* onAnalyze up to its await, and the effect on [loading] that sets the
\* progress interval
onAnalyze ==
  /\ ScanShown
  /\ ~disableAnalyze
  /\ ui' = [ui EXCEPT !.progress = 0, !.loading = TRUE, !.error = "null"]
  /\ analysis' = [state |-> "pending", file |-> ui.file, hint |-> TrimHint(ui.dishHint),
                  outcome |-> NoAnalysis.outcome, cameraFailed |-> FALSE]
  /\ interval' = TRUE
  /\ ticks' = 0
  /\ lastOp' = OtherOp
  /\ UNCHANGED <<outsideApp, cameraRequests, captures, tracks>>

\* the updater of the progress interval:
\* prev >= 95 ? prev : Math.min(prev + increment, 95)
NextProgress(prev, increment) ==
  IF prev >= ProgressCap THEN prev
  ELSE IF prev + increment > ProgressCap THEN ProgressCap
  ELSE prev + increment

\* const progressValue = Math.max(0, Math.min(100, progress))
progressValue(progress) ==
  IF progress > ProgressDone THEN ProgressDone ELSE IF progress < 0 THEN 0 ELSE progress

\* the progress interval fires: from the effect that set it until
\* clearAnalysisIntervals()
progressTick(increment) ==
  /\ interval
  /\ ticks < MaxTicks
  /\ ticks' = ticks + 1
  /\ ui' = [ui EXCEPT !.progress = NextProgress(ui.progress, increment)]
  /\ lastOp' = OtherOp
  /\ UNCHANGED <<outsideApp, analysis, cameraRequests, captures, tracks, interval>>

\* onAnalyze after its await: try, catch and finally
analyzeSettles(o) ==
  /\ analysis.state = "pending"
  /\ analysis' = [analysis EXCEPT !.state = "settled", !.outcome = o]
  /\ ui' = IF o.state = "fulfilled"
           THEN [ui EXCEPT !.result = o.summary,
                           !.progress = ProgressDone,
                           !.loading = FALSE]
           ELSE [ui EXCEPT !.error = FailureMessage(o.message),
                           !.progress = 0,
                           !.loading = FALSE]
  /\ lastOp' = Op("analyzeSettled")
  /\ UNCHANGED <<outsideApp, cameraRequests, captures, tracks, interval, ticks>>

\* the effect on [loading] of the render in which loading became false:
\* clearAnalysisIntervals() and setProgress((prev) => (prev === 100 ? prev : 0))
loadingEffect ==
  /\ EffectPending
  /\ ui' = Flushed
  /\ FlushEffect
  /\ lastOp' = Op("analyzeSettled")
  /\ UNCHANGED <<outsideApp, analysis, cameraRequests, captures, tracks>>

\* the Clear button, disabled while loading
onClear ==
  /\ ScanShown
  /\ ~ui.loading
  /\ StopCamera([ui EXCEPT !.file = "null", !.image = "null", !.result = "null",
                           !.error = "null", !.dishHint = "", !.progress = 0],
                ui.stream)
  /\ interval' = FALSE
  /\ ticks' = IF EffectPending THEN 0 ELSE ticks
  /\ lastOp' = Op("onClear")
  /\ UNCHANGED <<outsideApp, analysis, cameraRequests, captures>>

AppNext ==
  \/ \E f \in PickedFiles : onSelectFile(f)
  \/ startCamera
  \/ \E r \in 1..MaxStreams, granted \in BOOLEAN : getUserMediaSettles(r, granted)
  \/ stopCamera
  \/ capturePhoto
  \/ \E c \in 0..MaxStreams, blob \in BOOLEAN : toBlobCallback(c, blob)
  \/ \E id \in {"scan", "howItWorks"} : setActiveSection(id)
  \/ \E text \in Hints : setDishHint(text)
  \/ onAnalyze
  \/ \E increment \in Increments : progressTick(increment)
  \/ \E o \in AppOutcomes : analyzeSettles(o)
  \/ loadingEffect
  \/ onClear

(***************************************************************************)
(* callVeniceAPI (app/lib/venice.ts 114-166) and callModelAPI              *)
(* (app/lib/multi-model/api.ts 42-192) as processes: the timer, the fetch  *)
(* and the reading of the body.                                            *)
(***************************************************************************)
ModelConfig(name, ms) == [name |-> name, timeout |-> ms]
CALL_VENICE_CONFIG == ModelConfig("venice", 300000)
GEMINI_FLASH_CONFIG == ModelConfig("gemini-3-flash", 30000)
MINIMAX_M21_CONFIG == ModelConfig("minimax-m21", 25000)
GROK_41_CONFIG == ModelConfig("grok-41-fast", 20000)
\* a config callModelAPI has no branch for
OTHER_CONFIG == ModelConfig("other", 1000)
ModelConfigs ==
  {CALL_VENICE_CONFIG, GEMINI_FLASH_CONFIG, MINIMAX_M21_CONFIG, GROK_41_CONFIG, OTHER_CONFIG}
NoConfig == ModelConfig("", 0)

\* the branches of callModelAPI's if / else if chain
SupportedNames == {"venice", "gemini-3-flash", "minimax-m21", "grok-41-fast"}

\* what callModelAPI comes to for one fetch outcome
callModelAPI(c, o) ==
  IF o.kind = "abort"
  THEN [ok |-> FALSE, data |-> EmptyBody,
        message |-> <<c.name, "API", "request", "timed", "out", "after", ToString(c.timeout)>>]
  ELSE IF o.kind = "typeerror_fetch" THEN [ok |-> FALSE, data |-> EmptyBody, message |-> FailedToFetch]
  ELSE IF o.kind = "typeerror_other" THEN [ok |-> FALSE, data |-> EmptyBody, message |-> LoadFailed]
  ELSE IF ~ResponseOk(o.status)
  THEN [ok |-> FALSE, data |-> EmptyBody,
        message |-> <<c.name, "API", "error", ToString(o.status)>> \o o.text]
  ELSE IF ~o.validJson
  THEN [ok |-> FALSE, data |-> EmptyBody, message |-> UnexpectedToken]
  ELSE [ok |-> TRUE, data |-> o.data, message |-> <<>>]

\* the result of the call that is running, for the outcome o
CallOutcome(o) == IF callee = "callVeniceAPI" THEN callVeniceAPI(o) ELSE callModelAPI(config, o)

\* the messages of the two timed-out errors
TimedOutMessage == CallOutcome([NoReply EXCEPT !.kind = "abort"]).message

NoCallResult == [ok |-> FALSE, data |-> EmptyBody, message |-> <<>>]

CallIdle ==
  /\ callee = "none"
  /\ config = NoConfig
  /\ callPc = "idle"
  /\ timeout = "unset"
  /\ elapsed = FALSE
  /\ controller = FALSE
  /\ response = NoReply
  /\ callResult = NoCallResult

CallInit == CallIdle

\* callVeniceAPI(body) up to its await of fetch
callVeniceAPIBegins ==
  /\ callPc = "idle"
  /\ callee' = "callVeniceAPI"
  /\ timeout' = "armed"
  /\ callPc' = "fetch"
  /\ UNCHANGED <<outsideCall, config, elapsed, controller, response, callResult>>

\* callModelAPI(config, ...) up to its await of fetch: it throws before the
\* timer is set without an API key, and inside the try for a config it has no
\* branch for
callModelAPIBegins(c, apiKey) ==
  /\ callPc = "idle"
  /\ callee' = "callModelAPI"
  /\ config' = c
  /\ IF ~apiKey
     THEN /\ callResult' = [NoCallResult EXCEPT !.message = <<c.name, "API", "key", "not", "configured">>]
          /\ callPc' = "done"
          /\ UNCHANGED timeout
     ELSE IF c.name \notin SupportedNames
     THEN /\ callResult' = [NoCallResult EXCEPT !.message = <<"Unsupported", "model:", c.name>>]
          /\ callPc' = "done"
          /\ timeout' = "cleared"
     ELSE /\ callPc' = "fetch"
          /\ timeout' = "armed"
          /\ UNCHANGED callResult
  /\ UNCHANGED <<outsideCall, elapsed, controller, response>>

\* the delay passes while the call is running: the callback of a timer that
\* is still armed runs controller.abort()
TimerFires(state) == state = "armed"
delayPasses ==
  /\ callPc \in {"fetch", "body"}
  /\ ~elapsed
  /\ elapsed' = TRUE
  /\ controller' = (controller \/ TimerFires(timeout))
  /\ UNCHANGED <<outsideCall, callee, config, callPc, timeout, response, callResult>>

\* the await of fetch settles: with an AbortError exactly when the signal is
\* aborted; a Response clears the timer and the body is read next; an error
\* goes to the catch
fetchSettles(o) ==
  /\ callPc = "fetch"
  /\ (o.kind = "abort") <=> controller
  /\ timeout' = "cleared"
  /\ IF o.kind = "response"
     THEN /\ response' = o
          /\ callPc' = "body"
          /\ UNCHANGED callResult
     ELSE /\ callResult' = CallOutcome(o)
          /\ callPc' = "done"
          /\ UNCHANGED response
  /\ UNCHANGED <<outsideCall, callee, config, elapsed, controller>>

\* response.text() or response.json() settles: the body was read, or the
\* connection failed while it was being read
bodySettles(read) ==
  /\ callPc = "body"
  /\ callResult' = CallOutcome(IF read THEN response
                               ELSE [NoReply EXCEPT !.kind = "typeerror_other"])
  /\ callPc' = "done"
  /\ UNCHANGED <<outsideCall, callee, config, timeout, elapsed, controller, response>>

CallNext ==
  \/ callVeniceAPIBegins
  \/ \E c \in ModelConfigs, apiKey \in BOOLEAN : callModelAPIBegins(c, apiKey)
  \/ delayPasses
  \/ \E o \in FetchOutcomes : fetchSettles(o)
  \/ \E read \in BOOLEAN : bodySettles(read)

(***************************************************************************)
(* Specifications, one per part of the program                             *)
(***************************************************************************)
InitPipeline == PipelineInit /\ CleanIdle /\ MultiIdle /\ PanelIdle /\ ProxyIdle /\ AppIdle /\ CallIdle
SpecPipeline == InitPipeline /\ [][PipelineNext]_vars

InitClean == CleanInit /\ PipelineIdle /\ MultiIdle /\ PanelIdle /\ ProxyIdle /\ AppIdle /\ CallIdle
SpecClean == InitClean /\ [][CleanNext]_vars

InitMulti == MultiInit /\ PipelineIdle /\ CleanIdle /\ PanelIdle /\ ProxyIdle /\ AppIdle /\ CallIdle
SpecMulti == InitMulti /\ [][MultiNext]_vars

InitPanel == PanelInit /\ PipelineIdle /\ CleanIdle /\ MultiIdle /\ ProxyIdle /\ AppIdle /\ CallIdle
SpecPanel == InitPanel /\ [][PanelNext]_vars

InitProxy == ProxyInit /\ PipelineIdle /\ CleanIdle /\ MultiIdle /\ PanelIdle /\ AppIdle /\ CallIdle
SpecProxy == InitProxy /\ [][ProxyNext]_vars

InitApp == AppInit /\ PipelineIdle /\ CleanIdle /\ MultiIdle /\ PanelIdle /\ ProxyIdle /\ CallIdle
SpecApp == InitApp /\ [][AppNext]_vars

InitCall == CallInit /\ PipelineIdle /\ CleanIdle /\ MultiIdle /\ PanelIdle /\ ProxyIdle /\ AppIdle
SpecCall == InitCall /\ [][CallNext]_vars


----------------------------------------------------------------------------
(* Properties of the Venice clients *)

RequestsOf(stage) == SelectSeq(requests, LAMBDA r : r.stage = stage)
DirectRequestsOf(stage) ==
  SelectSeq(requests, LAMBDA r : r.stage = stage /\ r.url = VENICE_API_URL)

\* the reply o is a 2xx response with a JSON body
GoodResponse(o) == o.kind = "response" /\ ResponseOk(o.status) /\ o.validJson

\* the description the vision stage returned for its reply, <<>> when it threw
\* or the reply held no text
VisionStageText ==
  IF ~GoodResponse(visionReply) THEN <<>>
  ELSE IF client = "venice.ts" THEN extractTextFromResponse(visionReply.data)
  ELSE IF ContentFalsy(visionReply.data.content) THEN <<>>
  ELSE ContentAsString(visionReply.data.content)

\* C1: a text-model request is sent only after a vision-model request, only
\* when the vision stage returned a non-empty description, and it embeds that
\* description; when the vision stage threw or returned no text, no
\* text-model request is sent.
C1_VisionBeforeText ==
  /\ \A i \in 1..Len(requests) :
       requests[i].stage = "text" =>
         /\ \E j \in 1..(i - 1) : requests[j].stage = "vision"
         /\ Len(VisionStageText) > 0
         /\ requests[i].description = VisionStageText
  /\ (visionReply # NoReply /\ Len(VisionStageText) = 0) => Len(RequestsOf("text")) = 0
  /\ (pc \in {"idle", "resize", "vision"}) => Len(RequestsOf("text")) = 0

\* a text-model request went out, through the proxy too, in part_003, after an
\* array content was turned into the description
C1_Witness ==
  /\ client = "part_003"
  /\ Len(RequestsOf("text")) = 2
  /\ visionReply.data.content.t = "array"

\* the provider's error reply to the first text request says that
\* response_format is not supported
SaysSchemaUnsupported(o) ==
  /\ o.kind = "response"
  /\ ~ResponseOk(o.status)
  /\ LET lower == ToLowerCase(o.text)
     IN Includes(lower, <<"response_format">>) /\ Includes(lower, <<"not", "supported">>)

\* venice.ts: the retry rule of calculateNutritionFromDescription, for the
\* replies that count as "unsupported"
RetryRule(unsupported(_)) ==
  (client = "venice.ts" /\ Len(RequestsOf("text")) > 0) =>
    /\ RequestsOf("text")[1].response_format
    /\ Len(RequestsOf("text")) <= 2
    /\ (textReply # NoReply /\ unsupported(textReply)) =>
         /\ Len(RequestsOf("text")) = 2
         /\ ~RequestsOf("text")[2].response_format
         /\ RequestsOf("text")[2].description = RequestsOf("text")[1].description
         /\ (pc = "done" /\ ~GoodResponse(lastReply)) =>
              (outcome.state = "rejected" /\ outcome.message = callVeniceAPI(lastReply).message)
    /\ (textReply # NoReply /\ ~unsupported(textReply)) =>
         /\ Len(RequestsOf("text")) = 1
         /\ pc = "done"
         /\ ~GoodResponse(textReply) =>
              (outcome.state = "rejected" /\ outcome.message = callVeniceAPI(textReply).message)

\* C2 as stated: the first text request carries response_format; an error
\* reply that says response_format is not supported, whatever its HTTP status,
\* is retried exactly once without response_format; any other failure, and any
\* failure of the retry, is propagated with no further request.
C2_RetryWhateverStatus == RetryRule(SaysSchemaUnsupported)

SaysSchemaUnsupportedNot404(o) == SaysSchemaUnsupported(o) /\ o.status # NotFoundStatus

\* C2 amended: as C2, for an error reply whose HTTP status is not 404; a 404
\* reply is reported as "Model not found" and is not retried.
C2_RetryUnlessNotFound == RetryRule(SaysSchemaUnsupportedNot404)

\* the retry went out after an upper-case reply, and failed in turn
C2_Witness ==
  /\ client = "venice.ts"
  /\ pc = "done"
  /\ ~usedSchema
  /\ Includes(textReply.text, <<"RESPONSE_FORMAT">>)
  /\ outcome.state = "rejected"
  /\ Len(RequestsOf("text")) = 2

\* part_003: a stage of the two-stage pipeline threw
StageThrew(stage, o) ==
  o # NoReply /\ (~makeVeniceRequest(o).ok \/ ~StageResult(stage, o).ok)

\* C3: in part_003, when either stage of the two-stage pipeline throws,
\* analyzeSingleStage runs exactly once with the same image, hint and vision
\* model; the call rejects only if the single-stage analysis fails too; the
\* single-stage analysis never runs after the two-stage pipeline succeeded.
C3_SingleStageFallback ==
  client = "part_003" =>
    /\ (StageThrew("vision", visionReply) \/ StageThrew("text", textReply)) =>
         /\ Len(singleStageCalls) = 1
         /\ singleStageCalls[1] =
              [image |-> file, hint |-> userDishDescription, model |-> visionModel]
         /\ Len(DirectRequestsOf("single")) = 1
         /\ DirectRequestsOf("single")[1].image = requests[1].image
         /\ DirectRequestsOf("single")[1].hint = requests[1].hint
         /\ DirectRequestsOf("single")[1].model = requests[1].model
    /\ (outcome.state = "rejected" /\ Len(requests) > 0) =>
         /\ Len(singleStageCalls) = 1
         /\ lastReply # NoReply
         /\ requests[Len(requests)].stage = "single"
         /\ StageThrew("single", lastReply)
    /\ (textReply # NoReply /\ ~StageThrew("text", textReply)) =>
         /\ outcome.state = "fulfilled"
         /\ Len(singleStageCalls) = 0
         /\ Len(RequestsOf("single")) = 0

\* the text stage threw on an unparsable reply and the single-stage analysis,
\* run with a hint and a chosen model, succeeded
C3_Witness ==
  /\ client = "part_003"
  /\ StageThrew("text", textReply)
  /\ GoodResponse(textReply)
  /\ outcome.state = "fulfilled"
  /\ Len(userDishDescription) > 0
  /\ visionModel = "mistral-32-24b"

\* the direct post of a makeVeniceRequest call is about to settle
DirectPending == client = "part_003" /\ pc \in {"vision", "text", "single"} /\ hop = "direct"
\* a fetch that threw a network or CORS error (a TypeError), or a response
\* that is not OK
FetchFailed(o) ==
  \/ o.kind \in {"typeerror_fetch", "typeerror_other"}
  \/ (o.kind = "response" /\ ~ResponseOk(o.status))
DirectOk(o) == o.kind = "response" /\ ResponseOk(o.status)
ProxyRequests(list) == SelectSeq(list, LAMBDA r : r.url = VENICE_PROXY_URL)

\* C13: makeVeniceRequest falls back to the proxy whenever the direct request
\* fails, with a non-OK response or with a thrown network error: the step
\* that settles a failed direct post sends one request to the proxy with the
\* same body, and the step that settles an OK direct post sends none.
C13_ProxyOnEveryFailure ==
  [][DirectPending =>
       IF FetchFailed(lastReply')
       THEN /\ hop' = "proxy"
            /\ requests' = Append(requests, [requests[Len(requests)] EXCEPT
                                               !.url = VENICE_PROXY_URL])
       ELSE DirectOk(lastReply') => ProxyRequests(requests') = ProxyRequests(requests)]_vars


----------------------------------------------------------------------------
(* Properties of the cleaning pass *)

\* JSON.parse of a text, with the fraction of every number dropped
RECURSIVE DropFractions(_)
DropFractions(toks) ==
  IF Len(toks) = 0 THEN <<>>
  ELSE <<IF Head(toks).k = "number" THEN Tok("number", Head(toks).s, <<>>) ELSE Head(toks)>>
         \o DropFractions(Tail(toks))

\* C10: for a reply that is already well-formed JSON of the schema, the
\* summary parsed after the cleaning pass equals JSON.parse of the reply with
\* the decimal fractions dropped; numeric fields stay numbers.
C10_CleaningKeepsWellFormedJson ==
  cleanPc = "parsedSummary" =>
    /\ JsonParse(replyContent).ok
    /\ parsedSummary.ok
    /\ parsedSummary.toks = DropFractions(JsonParse(replyContent).toks)

----------------------------------------------------------------------------
(* Properties of the comparison module *)

\* the analyses that succeeded, in launch order: analyzeImageWithVenice has
\* settled and the try block of the adapter did not throw
Succeeded ==
  SelectSeq(analyses, LAMBDA a : a.analysis.state # "pending" /\ ~Throws(a.analysis))

\* the entries of the returned array that carry no error field
EntriesWithoutError == SelectSeq(multiResult.value, LAMBDA r : ~r.hasErrorField)

\* C4: runAllModels and runSelectedModels never reject; they resolve only
\* after every analysis launched has settled; and the results of the
\* analyses that succeeded are in the returned array, in launch order and
\* unaltered, whichever other analyses failed and in whatever order the
\* analyses settled.
C4_ResolvesAfterAllSettled ==
  /\ multiResult.state # "rejected"
  /\ multiResult.state = "fulfilled" =>
       /\ \A i \in 1..Len(analyses) : analyses[i].analysis.state # "pending"
       /\ Len(settleOrder) = Len(analyses)
       /\ Len(EntriesWithoutError) = Len(Succeeded)
       /\ \A k \in 1..Len(Succeeded) :
            /\ EntriesWithoutError[k].nutritionSummary = Succeeded[k].analysis.summary
            /\ EntriesWithoutError[k].modelName = VENICE_CONFIG.name

\* runSelectedModels resolved after the second analysis succeeded first and
\* the first one failed last
C4_Witness ==
  /\ multiCall = "runSelectedModels"
  /\ multiResult.state = "fulfilled"
  /\ settleOrder = <<2, 1>>
  /\ analyses[1].analysis.state = "rejected"
  /\ analyses[2].analysis.state = "fulfilled"
  /\ analyses[2].analysis.summary.title = "rice"

\* C5: runAllModels returns results only for working models: every entry of
\* the returned array is the result of an analysis that succeeded, and an
\* analysis that failed contributes no entry.
C5_OnlyWorkingModels ==
  (multiCall = "runAllModels" /\ multiResult.state = "fulfilled") =>
    /\ Len(multiResult.value) = Len(Succeeded)
    /\ \A k \in 1..Len(multiResult.value) :
         /\ ~multiResult.value[k].hasErrorField
         /\ multiResult.value[k].nutritionSummary = Succeeded[k].analysis.summary

\* the spellings of "venice" among the names tried
VeniceSpellings == {"venice", "VENICE"}
VenicePlaces == {k \in 1..Len(modelNames) : modelNames[k] \in VeniceSpellings}
OtherPlaces == (1..Len(modelNames)) \ VenicePlaces

\* C12: runSelectedModels always launches at least one analysis: one per
\* occurrence of "venice" in modelNames, whatever its case; every other name
\* is skipped with a warning; and with no name recognised, an empty list
\* included, exactly one analysis is launched as the default.
C12_LaunchesAtLeastOne ==
  multiCall = "runSelectedModels" =>
    /\ Len(analyses) >= 1
    /\ Len(analyses) = IF VenicePlaces = {} THEN 1 ELSE Cardinality(VenicePlaces)
    /\ \A k \in OtherPlaces :
         \E w \in 1..Len(warnings) : warnings[w] = UnknownModel(modelNames[k])
    /\ Cardinality({w \in 1..Len(warnings) : warnings[w] # NoValidModels})
         = Cardinality(OtherPlaces)

\* an upper-case "VENICE" was recognised twice and both analyses have settled
C12_Witness ==
  /\ multiCall = "runSelectedModels"
  /\ modelNames = <<"VENICE", "VENICE">>
  /\ Len(analyses) = 2
  /\ multiResult.state = "fulfilled"

\* C11: analyzeWithVenice never rejects: when analyzeImageWithVenice throws it
\* resolves with a result for "venice" whose error field is the failure
\* message and whose nutritionSummary is the fallback summary (title "Analysis
\* Failed", totalCalories 0, all macros 0, no items); when it succeeds the
\* result carries the returned summary and has no error field.
C11_AdapterNeverRejects ==
  \A i \in 1..Len(analyses) :
    LET call == analyses[i].analysis
        value == analyses[i].promise.value
    IN call.state # "pending" =>
         /\ analyses[i].promise.state = "fulfilled"
         /\ value.modelName = "venice"
         /\ call.state = "rejected" =>
              /\ value.hasErrorField
              /\ value.error = (IF call.isError THEN call.message ELSE EventAsString)
              /\ value.nutritionSummary.title = "Analysis Failed"
              /\ value.nutritionSummary.totalCalories = Num(0)
              /\ value.nutritionSummary.macros = Macros(Num(0))
              /\ value.nutritionSummary.items = <<>>
         /\ call.state = "fulfilled" =>
              /\ value.nutritionSummary = call.summary
              /\ ~value.hasErrorField

----------------------------------------------------------------------------
(* Properties of the comparison panel *)

\* result.confidence === 0 || result.error, as the claim words it
ErrorResult(result) == result.confidence = Num(0) \/ result.hasErrorField

\* C6: onSave fires only through the card of a result that is selected
\* (selectedModel equals its modelName) in the render that was clicked and
\* that is not an error result; through the card of a result with confidence
\* 0 or an error field neither onSelectModel nor onSave is ever called.
C6_SaveOnlySelectedWorking ==
  /\ \A e \in savedVia :
       /\ e.selectedModel = results[e.card].modelName
       /\ ~ErrorResult(results[e.card])
  /\ \A k \in selectedVia : ~ErrorResult(results[k])
  /\ panelResult # NoSummary =>
       \E e \in savedVia : panelResult = results[e.card].nutritionSummary

\* with a failed and a working result shown, the working one was selected
\* and saved, and nothing went through the failed one's card
C6_Witness ==
  /\ Len(results) = 2
  /\ ErrorResult(results[1])
  /\ ~ErrorResult(results[2])
  /\ savedVia = {[card |-> 2, selectedModel |-> "venice"]}
  /\ selectedVia = {2}
  /\ panelResult = results[2].nutritionSummary

----------------------------------------------------------------------------
(* Properties of the Netlify proxy *)

\* the event carries no body: undefined, null or the empty string
NoBody(e) == e.body.t # "string" \/ e.body.s = ""

\* C9: a request that is not a POST is answered 405 without an upstream
\* request; a POST causes exactly one upstream request, to Venice, whose body
\* is the received body unchanged ("{}" when there is none); the handler
\* returns the upstream status and text unchanged, whatever the status, and
\* 500 with the error message when the upstream request throws.
C9_ProxyPassthrough ==
  /\ Len(upstreamRequests) <= 1
  /\ proxyPc = "fetching" => Len(upstreamRequests) = 1
  /\ proxyPc = "done" =>
       IF event.httpMethod # "POST"
       THEN /\ proxyResponse = NetlifyResponse(405, "Method Not Allowed")
            /\ upstreamRequests = <<>>
       ELSE /\ Len(upstreamRequests) = 1
            /\ upstreamRequests[1].url = VENICE_API_URL
            /\ upstreamRequests[1].body = (IF NoBody(event) THEN "{}" ELSE event.body.s)
            /\ upstream.kind = "response" =>
                 proxyResponse = NetlifyResponse(upstream.status, upstream.text)
            /\ upstream.kind = "throws" =>
                 proxyResponse = NetlifyResponse(500, upstream.message)

\* a POST with a body was forwarded and the upstream 404 came back as it was
C9_Witness ==
  /\ proxyPc = "done"
  /\ event.httpMethod = "POST"
  /\ event.body = BodyText("not json")
  /\ upstream.kind = "response"
  /\ upstream.status = 404
  /\ proxyResponse = NetlifyResponse(404, "Unsupported tokenizer")

(***************************************************************************)
(* Properties of App                                                       *)
(***************************************************************************)
AnalysisSettled == lastOp.name = "analyzeSettled"
Settled(state) == AnalysisSettled /\ analysis.outcome.state = state
ClearEnabled == ~ui.loading
StopOps == {"stopCamera", "capturePhoto", "onClear", "leaveScan"}

\* C7 as stated: once analyzeImageWithVenice has settled, on success result is
\* the returned summary, error is null and progress is 100; on failure error
\* holds the failure message and progress is 0; in both loading is false and
\* the Analyze and Clear buttons are enabled.
C7_ErrorNullOnSuccess ==
  /\ Settled("fulfilled") =>
       /\ ui.result = analysis.outcome.summary
       /\ ui.error = "null"
       /\ ui.progress = ProgressDone
  /\ Settled("rejected") =>
       /\ ui.error = FailureMessage(analysis.outcome.message)
       /\ ui.progress = 0
  /\ AnalysisSettled => ~ui.loading /\ ~disableAnalyze /\ ClearEnabled

\* C7 as the code has it: once analyzeImageWithVenice has settled, on success
\* result is the returned summary, progress is 100, and error is null unless
\* startCamera failed while the analysis was pending, when error is the camera
\* message; on failure error holds the failure message and progress is 0; in
\* both loading is false, Clear is enabled, and Analyze is enabled exactly
\* when a file is still selected.
C7_AnalysisOutcome ==
  /\ Settled("fulfilled") =>
       /\ ui.result = analysis.outcome.summary
       /\ ui.progress = ProgressDone
       /\ IF analysis.cameraFailed
          THEN ui.error \in {"null", CameraMessage}
          ELSE ui.error = "null"
  /\ Settled("rejected") =>
       /\ ui.error = FailureMessage(analysis.outcome.message)
       /\ ui.progress = 0
  /\ AnalysisSettled =>
       /\ ~ui.loading
       /\ ClearEnabled
       /\ ~disableAnalyze <=> ui.file # "null"

\* an analysis that succeeded after the progress interval had fired, with the
\* camera message left in error
C7_Witness ==
  /\ Settled("fulfilled")
  /\ analysis.cameraFailed
  /\ ui.error = CameraMessage
  /\ ui.result = analysis.outcome.summary
  /\ ui.progress = ProgressDone
  /\ ~ui.loading

\* C8: right after stopCamera, a capturePhoto that produced a blob, onClear, or
\* a change of activeSection away from "scan", the tracks of the stream that
\* was held in state are stopped, stream is null, and showCamera and
\* cameraLoading are false.
C8_CameraReleased ==
  lastOp.name \in StopOps =>
    /\ lastOp.stream \notin tracks
    /\ ui.stream = 0
    /\ ~ui.showCamera
    /\ ~ui.cameraLoading

\* a capture that completed while a stream with live tracks was in state
C8_Witness ==
  /\ lastOp.name = "capturePhoto"
  /\ lastOp.stream # 0
  /\ ui.file = "capture"
  /\ ui.stream = 0
  /\ tracks = {}
  /\ ~ui.showCamera

\* the Analyze button is rendered and enabled
AnalyzeEnabled == ScanShown /\ ~disableAnalyze
InFlight == analysis.state = "pending"

\* C15: at most one analysis is in flight: a call of analyzeImageWithVenice
\* can start only when a file is selected, loading is false and no call is
\* pending, and loading is true exactly from the start of an analysis until
\* it settles.
C15_OneAnalysisInFlight ==
  /\ AnalyzeEnabled => (ui.file # "null" /\ ~ui.loading /\ ~InFlight)
  /\ ui.loading <=> InFlight

\* an analysis of A is in flight while another file is selected and the
\* Analyze button is rendered
C15_Witness ==
  /\ InFlight
  /\ ui.loading
  /\ ScanShown
  /\ analysis.file = "A"
  /\ ui.file = "B"
  /\ ~AnalyzeEnabled

\* C16: when an analysis settles, the file it was started on is still the
\* selected file: result and error are never set from the analysis of a
\* photo the user has replaced or removed while loading was true.
C16_ResultForSelectedFile ==
  AnalysisSettled => ui.file = analysis.file

\* C17: with no analysis in flight, a result that is displayed was produced
\* by the last analysis, from the file that is selected now; after a failed
\* analysis no result is displayed.
C17_ResultOfCurrentFile ==
  /\ (~InFlight /\ ui.result # "null") =>
       /\ analysis.state = "settled"
       /\ analysis.outcome.state = "fulfilled"
       /\ analysis.file = ui.file
  /\ Settled("rejected") => ui.result = "null"

\* C18: a camera stream with live tracks exists only while the camera view is
\* shown: with showCamera false or another section active no stream obtained
\* by startCamera has live tracks, and the only stream with live tracks is the
\* one held in state.
C18_NoStreamWithoutCameraView ==
  /\ (~ui.showCamera \/ ui.activeSection # "scan") => tracks = {}
  /\ tracks \subseteq {ui.stream}

\* C19: while loading is true progress never decreases and never exceeds 95;
\* the displayed progress is within 0..100; progress is 100 only after an
\* analysis has succeeded, until the next analysis starts or the form is
\* cleared; and it is 0 after a failed analysis.
C19_ProgressBounds ==
  /\ [](ui.loading => ui.progress <= ProgressCap)
  /\ [](progressValue(ui.progress) \in 0..ProgressDone /\ ui.progress \in 0..ProgressDone)
  /\ [](ui.progress = ProgressDone =>
          /\ ~ui.loading
          /\ analysis.state = "settled"
          /\ analysis.outcome.state = "fulfilled"
          /\ lastOp.name # "onClear")
  /\ []((analysis.state = "settled" /\ analysis.outcome.state = "rejected") =>
          ui.progress = 0)
  /\ [][(ui.loading /\ ui'.loading) => ui'.progress >= ui.progress]_vars

(***************************************************************************)
(* Properties of callVeniceAPI and callModelAPI                            *)
(***************************************************************************)
CallRunning == callPc \in {"fetch", "body"}

\* C14: the abort timer covers the whole call: when the delay has passed at
\* any point between the start of fetch and the end of the reading of the
\* body, the call has been aborted, and it settles with the timed-out error.
C14_TimerCoversCall ==
  /\ (CallRunning /\ elapsed) => controller
  /\ (callPc = "done" /\ elapsed) => (~callResult.ok /\ callResult.message = TimedOutMessage)

====
